---- MODULE Spec2Model ----
(***************************************************************************)
(* A model of pyrae's document decomposition (src/pyrae/core.py) and of    *)
(* its nested-map helper (src/pyrae/util.py).                              *)
(*                                                                         *)
(* Each decoder is a constructor that parses its fragment once.  The       *)
(* module holds one specification per decoder:                             *)
(*   SpecArticle     Article._parse_html       (the article segmenter)     *)
(*   SpecSearch      SearchResult._parse_html  (the page aggregator)       *)
(*   SpecDict        nested_dictionary_set     (the nested-map helper)     *)
(*   SpecDefinition  Definition._parse_html    (the definition decoder)    *)
(* The variables of the decoders a specification does not run keep their   *)
(* initial values.                                                         *)
(***************************************************************************)
EXTENDS Naturals, Sequences, FiniteSets

VARIABLES
    \* ---- Article._parse_html
    children,            \* the article's direct children, by kind, in document order
    contents,            \* self._soup.article.contents: the children still in the article
    iter,                \* the list iterator of `.children`: the next position it yields
    lema_entry_tag,      \* the children moved into Tag(name='lema_entry')
    complex_form_tag,    \* the open complex form: 0 is None, else its place in complex_forms_tags
    complex_forms_tags,  \* one synthetic tag per opened complex form: the children moved into it
    other_entries,       \* self._other_entries
    lema,                \* the child decoded as the article's lema, 0 when none
    supplementary_info,  \* self._supplementary_info of the article
    definitions,         \* self._definitions of the article
    complex_forms,       \* self._complex_forms: one Entry per complex form tag
    a_pc,                \* "start", "scan", "done", "failed"
    a_error,             \* what was raised, "" when nothing
    \* ---- SearchResult._parse_html
    has_results,         \* whether the page holds div#resultados
    items,               \* the direct children of div#resultados, in document order
    article_pos,         \* the child the loop over the article children has reached
    related_pos,         \* the child the loop over the div.n1 children has reached
    budget,              \* how many anchors the articles not yet decoded may still hold
    articles,            \* self._articles
    related_entries,     \* self._related_entries
    s_pc,                \* "idle", "parse", "done", "failed"
    s_error,             \* what was raised, "" when nothing
    \* ---- nested_dictionary_set
    dictionary,          \* the dictionary the calls mutate
    d_before,            \* the dictionary as it was when the last call began
    d_call,              \* the arguments of the last call
    d_result,            \* "none", "returned" (return dictionary) or "raised"
    writes,              \* how many calls were made
    \* ---- Definition._parse_html
    f_class,             \* the class attribute of the paragraph
    f_children,          \* the paragraph's direct children, in document order
    f_pos,               \* the child the loop has reached
    f_index,             \* self._index
    f_index_texts,       \* the texts of the index spans read so far, in order
    f_category,          \* self._category: the child decoded as category, 0 is None
    f_first_of_category, \* self._first_of_category
    f_abbreviations,     \* self._abbreviations: the children decoded, in order
    f_examples,          \* self._examples: the children decoded, in order
    f_sentence,          \* whether self._sentence is set
    f_gloss,             \* the children that gave a component of self._sentence, in order
    f_pc,                \* "idle", "start", "scan", "done", "failed"
    f_error,             \* what was raised, "" when nothing
    \* ---- the classifiers of Definition and Article.is_verb
    c_conjugations,      \* whether article.conjugations is not None
    c_definitions,       \* article.definitions: the category of each definition
    c_eval,              \* the property evaluated last, and on which definition
    c_result,            \* "none", "True", "False" or "raise"
    \* ---- EntryLema._parse_html and ArticleLema._parse_html
    l_kind,              \* the class constructed: "EntryLema" or "ArticleLema"
    l_found,             \* whether the fragment holds a tag of the name the class looks for
    l_class,             \* the class attribute of that tag
    l_has_id,            \* whether that tag has an id attribute
    l_has_i,             \* whether that tag holds an i tag
    l_text,              \* tag.get_text()
    l_id,                \* self._id
    l_lema,              \* self._lema
    l_is_foreign,        \* self._is_foreign
    l_index,             \* self._index
    l_female_suffix,     \* self._female_suffix
    l_flags,             \* is_acronym, is_prefix and is_suffix as last read
    l_pc,                \* "idle", "start", "done", "read", "failed"
    l_error,             \* what was raised, "" when nothing
    \* ---- to_dict
    t_entity,            \* the entity whose to_dict is called
    t_compact,           \* what to_dict(extended=False) gave last
    t_extended,          \* what to_dict(extended=True) gave last
    \* ---- logger.init_logger and dle.set_log_level
    g_initial,           \* the handlers the 'pyrae' logger had before the first call
    g_handlers,          \* len(logging.getLogger('pyrae').handlers)
    g_level,             \* the level of the 'pyrae' logger
    g_propagate,         \* logger.propagate
    g_current,           \* logger.current: "None" or the name of the logger it refers to
    g_call,              \* the last call: the function and its log_level
    g_result,            \* what the last call gave: "pyrae", "None" or "ValueError"
    g_calls,             \* the calls made so far
    g_returned,          \* the calls that returned so far
    g_imported,          \* whether dle has been imported
    \* ---- FromHTML: the constructor, from_html and the html setter of Abbr, Word, Sentence
    e_cls,               \* the class asked for an entity
    e_html,              \* the html it is given, as the tree html.parser makes of it
    e_blank_class,       \* the list the installed parser gives for class=""
    e_args,              \* the other arguments of the constructor: ignore_tags, parent_href
    e_obj,               \* the object of cls(html=html), or that the constructor raised
    e_built,             \* the object as its constructor left it
    e_from,              \* what cls.from_html(html=html) gave
    e_result,            \* what the last operation on the object gave
    e_sets,              \* the assignments to the html property made so far
    \* ---- Conjugation._parse_html and the class-level dictionaries
    q_tables,            \* the table each of the two Conjugation objects is given
    q_heap,              \* the dictionaries of the program, by the object they are
    q_self               \* each object: where its parse stands and what it holds

avars == << children, contents, iter, lema_entry_tag, complex_form_tag,
            complex_forms_tags, other_entries, lema, supplementary_info,
            definitions, complex_forms, a_pc, a_error >>

svars == << has_results, items, article_pos, related_pos, budget, articles,
            related_entries, s_pc, s_error >>

dvars == << dictionary, d_before, d_call, d_result, writes >>

fvars == << f_class, f_children, f_pos, f_index, f_index_texts, f_category,
            f_first_of_category, f_abbreviations, f_examples, f_sentence, f_gloss,
            f_pc, f_error >>

cvars == << c_conjugations, c_definitions, c_eval, c_result >>

lvars == << l_kind, l_found, l_class, l_has_id, l_has_i, l_text, l_id, l_lema,
            l_is_foreign, l_index, l_female_suffix, l_flags, l_pc, l_error >>

tvars == << t_entity, t_compact, t_extended >>

gvars == << g_initial, g_handlers, g_level, g_propagate, g_current, g_call,
            g_result, g_calls, g_returned, g_imported >>

evars == << e_cls, e_html, e_blank_class, e_args, e_obj, e_built, e_from, e_result, e_sets >>

qvars == << q_tables, q_heap, q_self >>

vars == << avars, svars, dvars, fvars, cvars, lvars, tvars, gvars, evars, qvars >>

\* ------------------------------------------------------------------ helpers

Range(s) == { s[i] : i \in 1..Len(s) }

SeqsUpTo(S, n) == UNION { [1..k -> S] : k \in 0..n }

Increasing(s) == \A i, j \in 1..Len(s) : i < j => s[i] < s[j]

\* ------------------------------------------------------------------ Article

\* The largest number of direct children of an article that is explored.
MaxChildren == 5

\* A direct child of the article, by what the segmenter reads of it: the tag
\* name and the first letter of the first class.  "text" is a child with no
\* branch of its own: a NavigableString (its name is None) or any other tag.
ChildKinds == { "header", "j", "k", "m", "n", "l", "text" }

\* del self.parent.contents[self.parent.index(self)]: what Tag.append(tag)
\* does to the article when it moves one of its children into another tag.
Extract(cs, tag) == SelectSeq(cs, LAMBDA c : c # tag)

\* The branch of the loop a child takes.  cft is complex_form_tag.
\*   "lema"  lema_entry_tag.append(tag)
\*   "new"   a new complex_form_entry is opened and the child appended to it
\*   "form"  complex_form_tag.append(tag)
\*   "none!" complex_form_tag.append(tag) with complex_form_tag None
\*   "word"  Word(html=str(tag), parent_href=self._id) joins other_entries
\*   "skip"  no branch
Route_NoteToLema(kind, cft) ==
    CASE kind = "header" -> "lema"
      [] kind = "j"      -> "lema"
      [] kind = "k"      -> "new"
      [] kind = "n"      -> "lema"
      [] kind = "m"      -> IF cft # 0 THEN "form" ELSE "none!"
      [] kind = "l"      -> "word"
      [] OTHER           -> "skip"

Route(kind, cft) ==
    CASE kind = "header" -> "lema"
      [] kind = "j"      -> "lema"
      [] kind = "k"      -> "new"
      [] kind = "n"      -> IF cft # 0 THEN "form" ELSE "lema"
      [] kind = "m"      -> IF cft # 0 THEN "form" ELSE "none!"
      [] kind = "l"      -> "word"
      [] OTHER           -> "skip"

\* No article is being decoded.
IdleArticle ==
    /\ children = << >>
    /\ contents = << >>
    /\ iter = 1
    /\ lema_entry_tag = << >>
    /\ complex_form_tag = 0
    /\ complex_forms_tags = << >>
    /\ other_entries = << >>
    /\ lema = 0
    /\ supplementary_info = << >>
    /\ definitions = << >>
    /\ complex_forms = << >>
    /\ a_pc = "idle"
    /\ a_error = ""

StartArticle ==
    /\ children \in SeqsUpTo(ChildKinds, MaxChildren)
    /\ contents = [i \in 1..Len(children) |-> i]
    /\ iter = 1
    /\ lema_entry_tag = << >>
    /\ complex_form_tag = 0
    /\ complex_forms_tags = << >>
    /\ other_entries = << >>
    /\ lema = 0
    /\ supplementary_info = << >>
    /\ definitions = << >>
    /\ complex_forms = << >>
    /\ a_pc = "start"
    /\ a_error = ""

ArticleFail(what) ==
    /\ a_pc' = "failed"
    /\ a_error' = what

\* if not self._soup.article or not self._soup.article.header: raise
ArticleCheck ==
    /\ a_pc = "start"
    /\ IF \E i \in 1..Len(children) : children[i] = "header"
         THEN a_pc' = "scan" /\ a_error' = ""
         ELSE ArticleFail("Invalid HTML")
    /\ UNCHANGED << children, contents, iter, lema_entry_tag, complex_form_tag,
                    complex_forms_tags, other_entries, lema, supplementary_info,
                    definitions, complex_forms >>
    /\ UNCHANGED << svars, dvars, fvars, cvars, lvars, tvars, gvars, evars, qvars >>

\* One turn of `for tag in self._soup.article.children`.  The iterator walks
\* the live list self._soup.article.contents by position, and a child that is
\* appended to another tag leaves that list at once.
ArticleScan ==
    /\ a_pc = "scan"
    /\ iter <= Len(contents)
    /\ LET tag   == contents[iter]
           route == Route(children[tag], complex_form_tag)
       IN  /\ iter' = iter + 1
           /\ CASE route = "lema" ->
                     /\ lema_entry_tag' = Append(lema_entry_tag, tag)
                     /\ contents' = Extract(contents, tag)
                     /\ UNCHANGED << complex_form_tag, complex_forms_tags,
                                     other_entries, a_pc, a_error >>
                [] route = "new" ->
                     /\ complex_forms_tags' = Append(complex_forms_tags, << tag >>)
                     /\ complex_form_tag' = Len(complex_forms_tags) + 1
                     /\ contents' = Extract(contents, tag)
                     /\ UNCHANGED << lema_entry_tag, other_entries, a_pc, a_error >>
                [] route = "form" ->
                     /\ complex_forms_tags' =
                            [complex_forms_tags EXCEPT ![complex_form_tag] = Append(@, tag)]
                     /\ contents' = Extract(contents, tag)
                     /\ UNCHANGED << lema_entry_tag, complex_form_tag,
                                     other_entries, a_pc, a_error >>
                [] route = "none!" ->
                     /\ ArticleFail("AttributeError")
                     /\ UNCHANGED << contents, lema_entry_tag, complex_form_tag,
                                     complex_forms_tags, other_entries >>
                [] route = "word" ->
                     \* Word(...) raises unless the paragraph holds a mark, an a or a span.u
                     /\ \E ok \in BOOLEAN :
                          IF ok THEN /\ other_entries' = Append(other_entries, tag)
                                     /\ UNCHANGED << a_pc, a_error >>
                                ELSE /\ ArticleFail("Word")
                                     /\ UNCHANGED other_entries
                     /\ UNCHANGED << contents, lema_entry_tag, complex_form_tag,
                                     complex_forms_tags >>
                [] OTHER ->
                     UNCHANGED << contents, lema_entry_tag, complex_form_tag,
                                  complex_forms_tags, other_entries, a_pc, a_error >>
    /\ UNCHANGED << children, lema, supplementary_info, definitions, complex_forms >>
    /\ UNCHANGED << svars, dvars, fvars, cvars, lvars, tvars, gvars, evars, qvars >>

\* The children of one kind in a synthetic tag, in the tag's order.
OfKind(tagseq, kind) == SelectSeq(tagseq, LAMBDA c : children[c] = kind)

\* Entry(html=str(complex_form_tag)): Entry._process_entry over the complex
\* form.  Its first child is the class-k paragraph, which EntryLema decodes;
\* class-n children become notes and class-m children definitions.
EntryOf(tagseq) ==
    [ lema               |-> Head(tagseq),
      supplementary_info |-> OfKind(tagseq, "n"),
      definitions        |-> OfKind(tagseq, "m") ]

\* The end of the loop: self._process_entry(entry_tag=lema_entry_tag), then
\* one Entry per complex form.  `bad` are the moved children whose own
\* decoder fails: a header that ArticleLema does not accept (no class f), a
\* definition paragraph that Definition rejects.
ArticleFinish ==
    /\ a_pc = "scan"
    /\ iter > Len(contents)
    /\ \E bad \in SUBSET { c \in 1..Len(children) : children[c] \in {"header", "j", "m"} } :
         LET headers == SelectSeq(lema_entry_tag,
                                  LAMBDA c : children[c] = "header" /\ c \notin bad)
             formed  == UNION { Range(complex_forms_tags[f]) : f \in 1..Len(complex_forms_tags) }
         IN  IF \E c \in Range(lema_entry_tag) : children[c] = "j" /\ c \in bad
               THEN /\ ArticleFail("Definition")
                    /\ UNCHANGED << lema, supplementary_info, definitions, complex_forms >>
             ELSE IF headers = << >>
               THEN /\ ArticleFail("Could not process lema")
                    /\ UNCHANGED << lema, supplementary_info, definitions, complex_forms >>
             ELSE IF \E c \in formed : children[c] = "m" /\ c \in bad
               THEN /\ ArticleFail("Definition")
                    /\ UNCHANGED << lema, supplementary_info, definitions, complex_forms >>
             ELSE /\ lema' = Head(headers)
                  /\ supplementary_info' = OfKind(lema_entry_tag, "n")
                  /\ definitions' = OfKind(lema_entry_tag, "j")
                  /\ complex_forms' = [f \in 1..Len(complex_forms_tags) |->
                                          EntryOf(complex_forms_tags[f])]
                  /\ a_pc' = "done"
                  /\ a_error' = ""
    /\ UNCHANGED << children, contents, iter, lema_entry_tag, complex_form_tag,
                    complex_forms_tags, other_entries >>
    /\ UNCHANGED << svars, dvars, fvars, cvars, lvars, tvars, gvars, evars, qvars >>


\* ------------------------------------------------------------------ SearchResult

\* The largest number of direct children of div#resultados that is explored.
MaxItems == 3

\* The largest number of anchors the articles of one page hold together.
MaxAnchors == 2

\* The id of the article element inside a conjugation table; NoId when the
\* table holds no article element with an id.
NoId == "-"
TableIds == { NoId, "A" }

\* The href of an anchor; NoHref when the anchor has no href attribute.
NoHref == "-"
Hrefs == { NoHref, "#", "#conjugacionA" }

\* An anchor of an article, in document order: whether one of its classes
\* matches re.compile('^e'), and its href.
Anchors == [ e : BOOLEAN, href : Hrefs ]

\* What div.n1's text gives under ArticleLema.lema_re: "nomatch" when the
\* pattern does not match, "None" when it matches with no parenthesised
\* token (the group `related` is None), else the captured token.
RelatedTexts == { "nomatch", "None", "r1", "r2" }

\* A direct child of div#resultados, by what the aggregator reads of it.
\*   article  an <article>; its markup is read when its loop reaches it
\*   conj     a <div id="conjugacion">: tid is the id of its article element,
\*            ok whether Conjugation(html=...) decodes it
\*   related  a <div class="n1">; its markup is read when its loop reaches it
\*   other    anything else
Item(t, tid, ok) == [ t |-> t, tid |-> tid, ok |-> ok ]

Items ==
    { Item("article", NoId, TRUE), Item("related", NoId, TRUE), Item("other", NoId, TRUE) }
    \cup { Item("conj", tid, ok) : tid \in TableIds, ok \in BOOLEAN }

\* Conjugation._parse_html: self._id = f"conjugacion{id_tag['id']}", '' by default.
ConjugationId(tid) == IF tid = NoId THEN "" ELSE "conjugacion" \o tid

\* The first child of kind t after position pos, 0 when there is none:
\* the next element of find_all(..., recursive=False), and
\* article_tag.find_next_sibling(name='div', attrs={'id': 'conjugacion'}).
NextOf(t, pos) ==
    IF \E i \in (pos + 1)..Len(items) : items[i].t = t
      THEN CHOOSE i \in (pos + 1)..Len(items) :
               /\ items[i].t = t
               /\ \A j \in (pos + 1)..(i - 1) : items[j].t # t
      ELSE 0

\* article_tag.find(name='a', class_=re.compile('^e')): the place of the
\* first anchor with a class that starts with e, 0 for None.
ATag_AnyClass(anchors) == IF anchors = << >> THEN 0 ELSE 1

ATag(anchors) ==
    IF \E i \in 1..Len(anchors) : anchors[i].e
      THEN CHOOSE i \in 1..Len(anchors) :
               anchors[i].e /\ \A j \in 1..(i - 1) : ~ anchors[j].e
      ELSE 0

\* if a_tag and a_tag.has_attr('href') and a_tag['href'] == f'#{conjugations.id}'
HrefMatches_Always(href, id) == TRUE

HrefMatches(href, id) == href # NoHref /\ href = "#" \o id

Correlated(anchors, id) ==
    /\ ATag(anchors) # 0
    /\ HrefMatches(anchors[ATag(anchors)].href, id)

IdleSearch ==
    /\ has_results = FALSE
    /\ items = << >>
    /\ article_pos = 0
    /\ related_pos = 0
    /\ budget = 0
    /\ articles = << >>
    /\ related_entries = << >>
    /\ s_pc = "idle"
    /\ s_error = ""

StartSearch ==
    /\ \/ has_results = FALSE /\ items = << >>
       \/ has_results = TRUE /\ items \in SeqsUpTo(Items, MaxItems)
    /\ article_pos = 0
    /\ related_pos = 0
    /\ budget = MaxAnchors
    /\ articles = << >>
    /\ related_entries = << >>
    /\ s_pc = "parse"
    /\ s_error = ""

SearchFail(what) ==
    /\ s_pc' = "failed"
    /\ s_error' = what

\* Article(html=str(article_tag)) raised: the exception leaves the loop and
\* the constructor.
ArticleRaises_Skipped(i) ==
    /\ article_pos' = i
    /\ UNCHANGED << articles, s_pc, s_error >>

ArticleRaises(i) ==
    /\ article_pos' = i
    /\ SearchFail("Article")
    /\ UNCHANGED articles

\* One turn of `for article_tag in results_div_tag.find_all(name='article',
\* recursive=False)`.  ok: whether Article(html=...) decodes the article;
\* anchors: the article's anchors in document order.
SearchArticle ==
    /\ s_pc = "parse"
    /\ NextOf("article", article_pos) # 0
    /\ LET i == NextOf("article", article_pos)
           c == NextOf("conj", i)
       IN  \E ok \in BOOLEAN, anchors \in SeqsUpTo(Anchors, budget) :
             /\ budget' = budget - Len(anchors)
             /\ IF ~ ok
                  THEN ArticleRaises(i)
                  ELSE /\ article_pos' = i
                       /\ IF c = 0
                            THEN /\ articles' = Append(articles,
                                        [src |-> i, anchors |-> anchors, conjugations |-> 0])
                                 /\ UNCHANGED << s_pc, s_error >>
                          ELSE IF ~ items[c].ok
                            THEN /\ articles' = Append(articles,
                                        [src |-> i, anchors |-> anchors, conjugations |-> 0])
                                 /\ SearchFail("Conjugation")
                          ELSE /\ articles' = Append(articles,
                                        [src |-> i, anchors |-> anchors,
                                         conjugations |->
                                            IF Correlated(anchors, ConjugationId(items[c].tid))
                                              THEN c ELSE 0])
                               /\ UNCHANGED << s_pc, s_error >>
    /\ UNCHANGED << has_results, items, related_pos, related_entries >>
    /\ UNCHANGED << avars, dvars, fvars, cvars, lvars, tvars, gvars, evars, qvars >>

\* One turn of `for related_res in results_div_tag.find_all(name='div',
\* class_='n1', recursive=False)`, which follows the loop over the articles.
\* a: whether the block holds a link; rel: what its text gives under lema_re;
\* ok: whether Word(html=str(related_res.a)) decodes the link.
SearchRelated ==
    /\ s_pc = "parse"
    /\ NextOf("article", article_pos) = 0
    /\ NextOf("related", related_pos) # 0
    /\ LET i == NextOf("related", related_pos)
       IN  \E a \in BOOLEAN, rel \in RelatedTexts, ok \in BOOLEAN :
             /\ related_pos' = i
             /\ IF ~ a \/ rel = "nomatch"
                  THEN UNCHANGED << related_entries, s_pc, s_error >>
                ELSE IF ~ ok
                  THEN /\ SearchFail("Word")
                       /\ UNCHANGED related_entries
                ELSE /\ related_entries' =
                          [ k \in DOMAIN related_entries \cup {rel} |->
                              IF k \in DOMAIN related_entries
                                THEN IF k = rel THEN Append(related_entries[k], i)
                                                ELSE related_entries[k]
                                ELSE << i >> ]
                     /\ UNCHANGED << s_pc, s_error >>
    /\ UNCHANGED << has_results, items, article_pos, budget, articles >>
    /\ UNCHANGED << avars, dvars, fvars, cvars, lvars, tvars, gvars, evars, qvars >>

\* The end of _parse_html: no div#resultados, or both loops are over.
SearchDone ==
    /\ s_pc = "parse"
    /\ NextOf("article", article_pos) = 0
    /\ NextOf("related", related_pos) = 0
    /\ s_pc' = "done"
    /\ UNCHANGED << has_results, items, article_pos, related_pos, budget,
                    articles, related_entries, s_error >>
    /\ UNCHANGED << avars, dvars, fvars, cvars, lvars, tvars, gvars, evars, qvars >>

\* ------------------------------------------------------------------ nested_dictionary_set

\* The longest sequence of keys of a call that is explored.
MaxKeys == 2

\* The largest number of successive calls on one dictionary that is explored.
MaxWrites == 2

Keys == { "a", "b" }

\* A value: a str (t = "str", s its text) or a dict (t = "dict", m the map
\* from its keys to their values).
Str(s) == [ t |-> "str", s |-> s, m |-> << >> ]

Dict(m) == [ t |-> "dict", s |-> "", m |-> m ]

EmptyMap == [ k \in {} |-> Str("") ]

\* What a call that raises gives, and what a path that leads nowhere holds.
Raised == [ t |-> "raise", s |-> "", m |-> << >> ]

Missing == [ t |-> "missing", s |-> "", m |-> << >> ]

\* The values written: a text that is also a key, the empty dict, and a dict
\* of one key for each key.
WriteValues ==
    { Str("a"), Dict(EmptyMap),
      Dict([ k \in {"a"} |-> Str("x") ]), Dict([ k \in {"b"} |-> Str("a") ]) }

\* The sequences of keys of a call.
KeyPaths == SeqsUpTo(Keys, MaxKeys) \ { << >> }

\* A dictionary laid out like CONJUGATION_BASE_DICT: a group that holds a
\* form ('') and a tense ({}), and an empty group.
Skeleton ==
    Dict([ k \in Keys |->
             IF k = "a"
               THEN Dict([ j \in Keys |-> IF j = "a" THEN Str("") ELSE Dict(EmptyMap) ])
               ELSE Dict(EmptyMap) ])

\* d[k] = v
Assign_Fresh(m, k, v) == [ x \in {k} |-> v ]

Assign(m, k, v) == [ x \in DOMAIN m \cup {k} |-> IF x = k THEN v ELSE m[x] ]

\* d[keys[-1]].update(value)
Update_Replace(old, new) == new

Update(old, new) ==
    [ k \in DOMAIN old \cup DOMAIN new |-> IF k \in DOMAIN new THEN new[k] ELSE old[k] ]

\* `key in d` for a str d: whether key is a substring of d.  Keys and texts
\* have at most one letter.
InStr(key, text) == key = text

\* Lines 27 to 33: the last key, on the map m of the dict the walk reached.
SetLast(m, k, value, create_missing, update_if_dicts) ==
    IF k \in DOMAIN m
      THEN IF m[k].t = "dict" /\ value.t = "dict" /\ update_if_dicts
             THEN Assign(m, k, Dict(Update(m[k].m, value.m)))
             ELSE Assign(m, k, value)
      ELSE IF create_missing THEN Assign(m, k, value) ELSE m

\* The walk from d along keys.  It gives d as the call leaves it, or Raised.
\* A str in the way raises (d[key], d.setdefault and d[key] = value are not
\* operations of str) unless the key is not in it and create_missing is
\* False, when the call returns with nothing done.
RECURSIVE Walk(_, _, _, _, _)
Walk(d, keys, value, create_missing, update_if_dicts) ==
    IF d.t = "str"
      THEN IF InStr(Head(keys), d.s) \/ create_missing THEN Raised ELSE d
    ELSE IF Len(keys) = 1
      THEN Dict(SetLast(d.m, keys[1], value, create_missing, update_if_dicts))
    ELSE IF Head(keys) \in DOMAIN d.m
      THEN LET sub == Walk(d.m[Head(keys)], Tail(keys), value,
                           create_missing, update_if_dicts)
           IN  IF sub.t = "raise" THEN Raised
                                  ELSE Dict([ d.m EXCEPT ![Head(keys)] = sub ])
    ELSE IF create_missing
      THEN Dict([ x \in DOMAIN d.m \cup {Head(keys)} |->
                    IF x = Head(keys)
                      THEN Walk(Dict(EmptyMap), Tail(keys), value,
                                create_missing, update_if_dicts)
                      ELSE d.m[x] ])
    ELSE d

nested_dictionary_set(dict, keys, value, create_missing, update_if_dicts) ==
    Walk(dict, keys, value, create_missing, update_if_dicts)

NoCall == [ keys |-> << >>, value |-> Str(""), create_missing |-> TRUE,
            update_if_dicts |-> TRUE ]

IdleDict ==
    /\ dictionary = Dict(EmptyMap)
    /\ d_before = Dict(EmptyMap)
    /\ d_call = NoCall
    /\ d_result = "none"
    /\ writes = MaxWrites

StartDict ==
    /\ dictionary \in { Dict(EmptyMap), Skeleton }
    /\ d_before = dictionary
    /\ d_call = NoCall
    /\ d_result = "none"
    /\ writes = 0

\* One call of nested_dictionary_set on the dictionary.
DictSet ==
    /\ writes < MaxWrites
    /\ \E keys \in KeyPaths, value \in WriteValues,
          create_missing \in BOOLEAN, update_if_dicts \in BOOLEAN :
         LET r == nested_dictionary_set(dictionary, keys, value,
                                        create_missing, update_if_dicts)
         IN  /\ d_call' = [ keys |-> keys, value |-> value,
                            create_missing |-> create_missing,
                            update_if_dicts |-> update_if_dicts ]
             /\ d_before' = dictionary
             /\ IF r.t = "raise"
                  THEN dictionary' = dictionary /\ d_result' = "raised"
                  ELSE dictionary' = r /\ d_result' = "returned"
    /\ writes' = writes + 1
    /\ UNCHANGED << avars, svars, fvars, cvars, lvars, tvars, gvars, evars, qvars >>

\* ------------------------------------------------------------------ Definition

\* The largest number of direct children of a paragraph that is explored.
MaxDefChildren == 3

\* A tag without a class attribute.
NoClass == "-"

\* The class attribute of the paragraph: none (or no paragraph at all), one
\* that holds no class (class=""), or its first class.
ParagraphClasses == { NoClass, "", "j", "m", "x" }

\* A direct child of the paragraph, by what the decoder reads of it.  The
\* name "" is a NavigableString; class is the first class, "" when the
\* attribute holds no class; title is whether an abbr has a title attribute.
DefTag(name, class, title) == [ name |-> name, class |-> class, title |-> title ]

DefChildren ==
    { DefTag("", NoClass, FALSE),
      DefTag("span", "n_acep", FALSE), DefTag("span", "h", FALSE),
      DefTag("span", "", FALSE), DefTag("a", NoClass, FALSE),
      DefTag("abbr", "D", TRUE), DefTag("abbr", "g", TRUE),
      DefTag("abbr", NoClass, TRUE), DefTag("abbr", "d", FALSE) }

\* str.lower() on the classes of the model.
Lower(class) == IF class = "D" THEN "d" ELSE class

\* The characters of the text of an index span.
Digits == { "1", "2" }

DigitValue(c) == IF c = "1" THEN 1 ELSE 2

\* The texts of an index span, as sequences of characters.
IndexTexts ==
    { << >>, << "1" >>, << "1", "." >>, << "2", ")" >>, << "1", "2" >>,
      << "1", "2", "." >>, << "a", "." >>, << "1", ".", "2" >>, << "2", ".", " " >> }

\* int() of a sequence of digits.
RECURSIVE Int(_)
Int(ds) ==
    IF ds = << >> THEN 0
    ELSE 10 * Int(SubSeq(ds, 1, Len(ds) - 1)) + DigitValue(ds[Len(ds)])

\* __index_re.match: ^(?P<index>\d+).\D*$  The group takes n digits, the
\* dot takes the next character whatever it is, and no digit follows.  The
\* result is the digits of the group, << >> when there is no match.
IndexMatch(text) ==
    LET fits(n) == /\ n >= 1
                   /\ n < Len(text)
                   /\ \A i \in 1..n : text[i] \in Digits
                   /\ \A i \in (n + 2)..Len(text) : text[i] \notin Digits
        ns == { n \in 1..Len(text) : fits(n) }
    IN  IF ns = {} THEN << >>
        ELSE SubSeq(text, 1, CHOOSE n \in ns : \A k \in ns : k <= n)

\* `not self._category`
NoCategory(category) == category = 0

\* Abbr(html=str(tag)) raises when the abbr has no title attribute.
AbbrRaises(tag) == ~ tag.title

IdleDefinition ==
    /\ f_class = NoClass
    /\ f_children = << >>
    /\ f_pos = 1
    /\ f_index = 0
    /\ f_index_texts = << >>
    /\ f_category = 0
    /\ f_first_of_category = FALSE
    /\ f_abbreviations = << >>
    /\ f_examples = << >>
    /\ f_sentence = FALSE
    /\ f_gloss = << >>
    /\ f_pc = "idle"
    /\ f_error = ""

StartDefinition ==
    /\ f_class \in ParagraphClasses
    /\ f_children \in SeqsUpTo(DefChildren, MaxDefChildren)
    /\ f_pos = 1
    /\ f_index = 0
    /\ f_index_texts = << >>
    /\ f_category = 0
    /\ f_first_of_category = FALSE
    /\ f_abbreviations = << >>
    /\ f_examples = << >>
    /\ f_sentence = FALSE
    /\ f_gloss = << >>
    /\ f_pc = "start"
    /\ f_error = ""

DefinitionFail(what) ==
    /\ f_pc' = "failed"
    /\ f_error' = what

\* The two checks on the paragraph.
DefinitionCheck ==
    /\ f_pc = "start"
    /\ CASE f_class = NoClass      -> DefinitionFail("Invalid HTML tag passed for a definition.")
         [] f_class = ""           -> DefinitionFail("IndexError")
         [] f_class \in {"j", "m"} -> f_pc' = "scan" /\ f_error' = ""
         [] OTHER                  -> DefinitionFail("Paragraph class does not correspond to a definition.")
    /\ UNCHANGED << f_class, f_children, f_pos, f_index, f_index_texts, f_category,
                    f_first_of_category, f_abbreviations, f_examples, f_sentence,
                    f_gloss >>
    /\ UNCHANGED << avars, svars, dvars, cvars, lvars, tvars, gvars, evars, qvars >>

\* Whether tag['class'][0] raises IndexError: the class attribute holds no
\* class, and the parser gives it as [] or as [''] according to its version.
ClassRaises(tag) ==
    IF tag.name # "" /\ tag.class = "" THEN BOOLEAN ELSE { FALSE }

\* One turn of `for tag in self._soup.p.children`.
DefinitionScan ==
    /\ f_pc = "scan"
    /\ f_pos <= Len(f_children)
    /\ f_pos' = f_pos + 1
    /\ LET tag == f_children[f_pos]
           tag_class == IF tag.class = NoClass THEN "" ELSE Lower(tag.class)
           keep == UNCHANGED << f_index, f_index_texts, f_category, f_first_of_category,
                                f_abbreviations, f_examples, f_pc, f_error >>
       IN  \E raises \in ClassRaises(tag) :
             CASE tag.name = "" -> keep
               [] tag.name # "" /\ raises ->
                    /\ DefinitionFail("IndexError")
                    /\ UNCHANGED << f_index, f_index_texts, f_category, f_first_of_category,
                                    f_abbreviations, f_examples >>
               [] tag.name = "span" /\ ~ raises /\ tag_class = "n_acep" ->
                    /\ \E text \in IndexTexts :
                          /\ f_index' = IF IndexMatch(text) # << >>
                                          THEN Int(IndexMatch(text)) ELSE f_index
                          /\ f_index_texts' = Append(f_index_texts, text)
                    /\ UNCHANGED << f_category, f_first_of_category,
                                    f_abbreviations, f_examples, f_pc, f_error >>
               [] tag.name = "span" /\ ~ raises /\ tag_class = "h" ->
                    /\ f_examples' = Append(f_examples, f_pos)
                    /\ UNCHANGED << f_index, f_index_texts, f_category, f_first_of_category,
                                    f_abbreviations, f_pc, f_error >>
               [] tag.name = "abbr" /\ ~ raises /\ AbbrRaises(tag) ->
                    /\ DefinitionFail("The title attribute is expected to contain the expanded text.")
                    /\ UNCHANGED << f_index, f_index_texts, f_category, f_first_of_category,
                                    f_abbreviations, f_examples >>
               [] tag.name = "abbr" /\ ~ raises /\ ~ AbbrRaises(tag) ->
                    IF NoCategory(f_category)
                      THEN /\ f_category' = f_pos
                           /\ f_first_of_category' = (tag_class = "d")
                           /\ UNCHANGED << f_index, f_index_texts, f_abbreviations, f_examples,
                                           f_pc, f_error >>
                      ELSE /\ f_abbreviations' = Append(f_abbreviations, f_pos)
                           /\ UNCHANGED << f_index, f_index_texts, f_category, f_first_of_category,
                                           f_examples, f_pc, f_error >>
               [] OTHER -> keep
    /\ UNCHANGED << f_class, f_children, f_sentence, f_gloss >>
    /\ UNCHANGED << avars, svars, dvars, cvars, lvars, tvars, gvars, evars, qvars >>

\* ignore_tags=('abbr', 'span')
GlossIgnoreTags_None == { }

GlossIgnoreTags == { "abbr", "span" }

\* Sentence._parse_html, by the children that give a component: every child
\* whose name is not among ignore_tags, a NavigableString (its name is None)
\* included, gives one.
Composed(tags, ignore_tags) ==
    SelectSeq([ i \in 1..Len(tags) |-> i ], LAMBDA i : tags[i].name \notin ignore_tags)

\* self._sentence = Sentence(html=str(self._soup.p), ignore_tags=('abbr', 'span'))
\* Sentence takes whatever the paragraph holds: it decodes each child with
\* from_html, which gives None where the decoder raises.
DefinitionFinish ==
    /\ f_pc = "scan"
    /\ f_pos > Len(f_children)
    /\ f_sentence' = TRUE
    /\ f_gloss' = Composed(f_children, GlossIgnoreTags)
    /\ f_pc' = "done"
    /\ UNCHANGED << f_class, f_children, f_pos, f_index, f_index_texts, f_category,
                    f_first_of_category, f_abbreviations, f_examples, f_error >>
    /\ UNCHANGED << avars, svars, dvars, cvars, lvars, tvars, gvars, evars, qvars >>

\* ------------------------------------------------------------------ classifiers

\* The largest number of definitions of an article that is explored.
MaxDefinitions == 2

\* A text is a sequence of characters.
\* The category of a Definition: None, or an Abbr with its abbreviated text
\* (abbr) and its expanded text (text).
NoneCategory == [ none |-> TRUE, abbr |-> << >>, text |-> << >> ]

Abbreviation(abbr, text) == [ none |-> FALSE, abbr |-> abbr, text |-> text ]

Categories ==
    { NoneCategory,
      Abbreviation(<< "a", "d", "v", "." >>,
                   << "a", "d", "v", "e", "r", "b", "i", "o" >>),
      Abbreviation(<< "a", "d", "j", "." >>,
                   << "a", "d", "j", "e", "t", "i", "v", "o" >>),
      Abbreviation(<< "s", "." >>,
                   << "s", "u", "s", "t", "a", "n", "t", "i", "v", "o" >>),
      Abbreviation(<< "s", "u", "s", "t", "." >>,
                   << "s", "u", "s", "t", "a", "n", "t", "i", "v", "o" >>),
      Abbreviation(<< "p", "r", "o", "n", "." >>,
                   << "p", "r", "o", "n", "o", "m", "b", "r", "e" >>),
      Abbreviation(<< "t", "r", "." >>,
                   << "v", "e", "r", "b", "o", " ", "t", "r", "a", "n", "s", "i", "t", "i", "v", "o" >>),
      Abbreviation(<< "i", "n", "t", "r", "." >>,
                   << "V", "e", "r", "b", "o", " ", "i", "n", "t", "r", "." >>),
      Abbreviation(<< "p", "a", "r", "t", "." >>,
                   << "p", "a", "r", "t", "i", "c", "i", "p", "i", "o" >>),
      Abbreviation(<< "p", "a", "r", "t" >>,
                   << "p", "a", "r", "t", "i", "c", "i", "p", "i", "o" >>),
      Abbreviation(<< "m", "." >>,
                   << "n", "o", "m", "b", "r", "e" >>) }

\* str.lower() on the characters of the model, for re.IGNORECASE.
LowerChar(c) == IF c = "V" THEN "v" ELSE IF c = "U" THEN "u" ELSE c

LowerText(t) == [ i \in 1..Len(t) |-> LowerChar(t[i]) ]

\* Whether pattern occurs in text from position i on.
OccursAt(pattern, text, i) ==
    /\ i + Len(pattern) - 1 <= Len(text)
    /\ \A k \in 1..Len(pattern) : text[i + k - 1] = pattern[k]

\* __verb_re.match: ^.*verbo.*$ with re.IGNORECASE
VerbRe(text) ==
    \E i \in 1..Len(text) : OccursAt(<< "v", "e", "r", "b", "o" >>, LowerText(text), i)

\* 'part.|ger.|pret.|fut.|pres.|infinit.': each alternative ends with a dot
\* that takes any one character.
VerbAbbrPatterns == { << "p", "a", "r", "t" >>, << "g", "e", "r" >>, << "p", "r", "e", "t" >>, << "f", "u", "t" >>, << "p", "r", "e", "s" >>, << "i", "n", "f", "i", "n", "i", "t" >> }

VerbAbbrSearch(abbr) ==
    \E pattern \in VerbAbbrPatterns, i \in 1..Len(abbr) :
       OccursAt(pattern, abbr, i) /\ i + Len(pattern) <= Len(abbr)

PyBool(b) == IF b THEN "True" ELSE "False"

\* self._category.<attribute>: AttributeError when the category is None.
HasAttributes_Always(category) == TRUE

HasAttributes(category) == ~ category.none

Classifiers == { "is_adverb", "is_adjective", "is_noun", "is_pronoun", "is_verb" }

\* The value of a classifier where the category is an Abbr.
Classify(which, category) ==
    CASE which = "is_adverb"    -> category.abbr = << "a", "d", "v", "." >>
      [] which = "is_adjective" -> category.abbr = << "a", "d", "j", "." >>
      [] which = "is_noun"      -> category.abbr \in { << "s", "." >>, << "s", "u", "s", "t", "." >> }
      [] which = "is_pronoun"   -> category.abbr = << "p", "r", "o", "n", "." >>
      [] which = "is_verb"      -> VerbRe(category.text) \/ VerbAbbrSearch(category.abbr)

\* What evaluating a classifier gives: "True", "False" or "raise".
Classifier(which, category) ==
    IF HasAttributes(category) THEN PyBool(Classify(which, category)) ELSE "raise"

\* any(definition for definition in self.definitions if definition.is_verb):
\* the definitions are asked in order, up to the first that is a verb.
RECURSIVE AnyVerb(_)
AnyVerb(defs) ==
    IF defs = << >> THEN "False"
    ELSE LET r == Classifier("is_verb", Head(defs))
         IN  IF r = "False" THEN AnyVerb(Tail(defs)) ELSE r

\* Article.is_verb
ArticleIsVerb_ConjugationOnly(conjugations, defs) == PyBool(conjugations)

ArticleIsVerb(conjugations, defs) ==
    IF conjugations THEN "True" ELSE AnyVerb(defs)

NoEval == [ what |-> "", d |-> 0 ]

IdleClassify ==
    /\ c_conjugations = FALSE
    /\ c_definitions = << >>
    /\ c_eval = NoEval
    /\ c_result = "idle"

StartClassify ==
    /\ c_conjugations \in BOOLEAN
    /\ c_definitions \in SeqsUpTo(Categories, MaxDefinitions)
    /\ c_eval = NoEval
    /\ c_result = "none"

\* One of the five classifiers is read on one definition of the article.
EvalClassifier ==
    /\ c_result # "idle"
    /\ \E d \in 1..Len(c_definitions), which \in Classifiers :
          /\ c_eval' = [ what |-> which, d |-> d ]
          /\ c_result' = Classifier(which, c_definitions[d])
    /\ UNCHANGED << c_conjugations, c_definitions >>
    /\ UNCHANGED << avars, svars, dvars, fvars, lvars, tvars, gvars, evars, qvars >>

\* Article.is_verb is read.
EvalArticleIsVerb ==
    /\ c_result # "idle"
    /\ c_eval' = [ what |-> "Article.is_verb", d |-> 0 ]
    /\ c_result' = ArticleIsVerb(c_conjugations, c_definitions)
    /\ UNCHANGED << c_conjugations, c_definitions >>
    /\ UNCHANGED << avars, svars, dvars, fvars, lvars, tvars, gvars, evars, qvars >>

\* ------------------------------------------------------------------ EntryLema and ArticleLema

\* The texts of a lema tag, as sequences of characters.
LemaTexts ==
    { << "p", "r", "e", "-" >>,
      << "-", "m", "e", "n", "t", "e" >>,
      << "O", "N", "U" >>,
      << "O", "n", "u" >>,
      << "c", "a", "s", "a" >>,
      << "s", "o", "l", "2" >>,
      << "o", "1", "2" >>,
      << "a", "m", "i", "g", "o", ",", " ", "g", "a" >>,
      << "v", "e", "r", " ", "(", "a", ")" >>,
      << "u", "n", ",", " ", "a", " ", "(", "b", ")" >>,
      << "a", "_" >>,
      << >> }

LowerLetters == { "a", "b", "c", "e", "g", "i", "l", "m", "n", "o", "p", "r", "s", "t", "u", "v" }

UpperLetters == { "N", "O", "U" }

\* [^\W\d_]
Letters == LowerLetters \cup UpperLetters

\* \w
WordChars == Letters \cup Digits \cup { "_" }

\* \s
Spaces == { " " }

\* The place of the last character of the longest run of characters of S
\* that starts at place i of text t: i - 1 when the run is empty.
RunEnd(t, i, S) ==
    LET ends == { j \in (i - 1)..Len(t) : \A k \in i..j : t[k] \in S }
    IN  CHOOSE j \in ends : \A k \in ends : k <= j

At(t, i) == IF i \in 1..Len(t) THEN t[i] ELSE ""

\* lema_re.match:
\*   ^(?P<lema>[^\W\d_]+)(?P<index>\d+)?(?:,\s+(?P<female_suffix>\w+))?(?:\s+\((?P<related>\w+)\))?$
\* Each group takes the longest run it can: a shorter one leaves a character
\* that nothing after it takes.  A group that did not take part is << >>.
LemaMatch(t) ==
    LET p1 == RunEnd(t, 1, Letters)
        p2 == RunEnd(t, p1 + 1, Digits)
        s3 == RunEnd(t, p2 + 2, Spaces)
        w3 == RunEnd(t, s3 + 1, WordChars)
        g3 == At(t, p2 + 1) = "," /\ s3 >= p2 + 2 /\ w3 >= s3 + 1
        p3 == IF g3 THEN w3 ELSE p2
        s4 == RunEnd(t, p3 + 1, Spaces)
        w4 == RunEnd(t, s4 + 2, WordChars)
        g4 == s4 >= p3 + 1 /\ At(t, s4 + 1) = "(" /\ w4 >= s4 + 2 /\ At(t, w4 + 1) = ")"
        p4 == IF g4 THEN w4 + 1 ELSE p3
    IN  [ matched       |-> p1 >= 1 /\ p4 = Len(t),
          lema          |-> SubSeq(t, 1, p1),
          index         |-> SubSeq(t, p1 + 1, p2),
          female_suffix |-> IF g3 THEN SubSeq(t, s3 + 1, w3) ELSE << >>,
          related       |-> IF g4 THEN SubSeq(t, s4 + 2, w4) ELSE << >> ]

\* str.isupper(): there is a cased character and no cased character is
\* lowercase.
IsUpper(t) ==
    /\ \E i \in 1..Len(t) : t[i] \in UpperLetters
    /\ \A i \in 1..Len(t) : t[i] \notin LowerLetters

\* str.startswith('-') and str.endswith('-')
StartsWithHyphen(t) == Len(t) >= 1 /\ t[1] = "-"

EndsWithHyphen(t) == Len(t) >= 1 /\ t[Len(t)] = "-"

is_acronym(lema_text) == IsUpper(lema_text)

is_prefix(lema_text) == StartsWithHyphen(lema_text)

is_suffix(lema_text) == EndsWithHyphen(lema_text)

\* PROCESSING_TAGS['lema']['class'] of the class constructed.
LemaClassLetter(kind) == IF kind = "ArticleLema" THEN "f" ELSE "k"

\* The class attribute of the lema tag: none, one that holds no class, or
\* the first letter of its first class, lowercased.
LemaClasses == { NoClass, "", "f", "k", "x" }

NoFlags == [ is_acronym |-> FALSE, is_prefix |-> FALSE, is_suffix |-> FALSE ]

IdleLema ==
    /\ l_kind = "EntryLema"
    /\ l_found = FALSE
    /\ l_class = NoClass
    /\ l_has_id = FALSE
    /\ l_has_i = FALSE
    /\ l_text = << >>
    /\ l_id = ""
    /\ l_lema = << >>
    /\ l_is_foreign = FALSE
    /\ l_index = 0
    /\ l_female_suffix = << >>
    /\ l_flags = NoFlags
    /\ l_pc = "idle"
    /\ l_error = ""

StartLema ==
    /\ l_kind \in { "EntryLema", "ArticleLema" }
    /\ l_found \in BOOLEAN
    /\ l_class \in (IF l_found THEN LemaClasses ELSE { NoClass })
    /\ l_has_id \in (IF l_found THEN BOOLEAN ELSE { FALSE })
    /\ l_has_i \in (IF l_found THEN BOOLEAN ELSE { FALSE })
    /\ l_text \in (IF l_found THEN LemaTexts ELSE { << >> })
    /\ l_id = ""
    /\ l_lema = << >>
    /\ l_is_foreign = FALSE
    /\ l_index = 0
    /\ l_female_suffix = << >>
    /\ l_flags = NoFlags
    /\ l_pc = "start"
    /\ l_error = ""

\* EntryLema._parse_html, and after it the rest of ArticleLema._parse_html
\* when the class constructed is ArticleLema.
LemaParse ==
    /\ l_pc = "start"
    /\ IF ~ l_found \/ l_class = NoClass \/ l_class # LemaClassLetter(l_kind)
         THEN /\ l_pc' = "failed"
              /\ l_error' = IF l_found /\ l_class = "" THEN "IndexError" ELSE "Invalid HTML."
              /\ UNCHANGED << l_id, l_lema, l_is_foreign, l_index, l_female_suffix >>
         ELSE LET match == LemaMatch(l_text)
                  article == l_kind = "ArticleLema" /\ match.matched
              IN  /\ l_id' = IF l_has_id THEN "id" ELSE ""
                  /\ l_is_foreign' = l_has_i
                  /\ l_lema' = IF article THEN match.lema ELSE l_text
                  /\ l_index' = IF article /\ match.index # << >>
                                  THEN Int(match.index) ELSE l_index
                  /\ l_female_suffix' = IF article /\ match.female_suffix # << >>
                                          THEN match.female_suffix ELSE l_female_suffix
                  /\ l_pc' = "done"
                  /\ l_error' = ""
    /\ UNCHANGED << l_kind, l_found, l_class, l_has_id, l_has_i, l_text, l_flags >>
    /\ UNCHANGED << avars, svars, dvars, fvars, cvars, tvars, gvars, evars, qvars >>

\* is_acronym, is_prefix and is_suffix of a constructed ArticleLema are read.
LemaFlags ==
    /\ l_pc \in { "done", "read" }
    /\ l_kind = "ArticleLema"
    /\ l_flags' = [ is_acronym |-> is_acronym(l_lema),
                    is_prefix  |-> is_prefix(l_lema),
                    is_suffix  |-> is_suffix(l_lema) ]
    /\ l_pc' = "read"
    /\ UNCHANGED << l_kind, l_found, l_class, l_has_id, l_has_i, l_text, l_id,
                    l_lema, l_is_foreign, l_index, l_female_suffix, l_error >>
    /\ UNCHANGED << avars, svars, dvars, fvars, cvars, tvars, gvars, evars, qvars >>

\* ------------------------------------------------------------------ to_dict

\* What to_dict builds: str, bool and int values, lists, and dicts from
\* keys to such values.  v is the plain value, l the items of a list, m the
\* entries of a dict.
TStr(chars) == [ t |-> "str", v |-> chars, l |-> << >>, m |-> EmptyMap ]

TBool(b) == [ t |-> "bool", v |-> << PyBool(b) >>, l |-> << >>, m |-> EmptyMap ]

TInt(n) == [ t |-> "int", v |-> << n >>, l |-> << >>, m |-> EmptyMap ]

TRaise == [ t |-> "raise", v |-> << >>, l |-> << >>, m |-> EmptyMap ]

TNone == [ t |-> "none", v |-> << >>, l |-> << >>, m |-> EmptyMap ]

\* A list, or the exception that building one of its items raised.
TList(elems) ==
    IF \E i \in 1..Len(elems) : elems[i].t = "raise" THEN TRaise
    ELSE [ t |-> "list", v |-> << >>, l |-> elems, m |-> EmptyMap ]

\* A dict, or the exception that building one of its values raised.
TDict(m) ==
    IF \E k \in DOMAIN m : m[k].t = "raise" THEN TRaise
    ELSE [ t |-> "dict", v |-> << >>, l |-> << >>, m |-> m ]

\* {key: value}
Entry1(key, value) == [ k \in { key } |-> value ]

\* FromHTML.to_dict: {'html': self._html} if extended else {}
FromHTML_to_dict_Swapped(e, extended) ==
    IF extended THEN EmptyMap ELSE Entry1("html", TStr(e.html))

FromHTML_to_dict(e, extended) ==
    IF extended THEN Entry1("html", TStr(e.html)) ELSE EmptyMap

DLE_MAIN_URL == << "https://dle.rae.es" >>

\* Word.link
WordLink(e) == IF e.href # << >> THEN DLE_MAIN_URL \o e.href ELSE << >>

\* str.strip()
Strip(t) ==
    LET kept == { i \in 1..Len(t) : t[i] \notin Spaces }
    IN  IF kept = {} THEN << >>
        ELSE SubSeq(t, CHOOSE i \in kept : \A k \in kept : i <= k,
                       CHOOSE i \in kept : \A k \in kept : k <= i)

\* str(component) for a component of a Sentence: Abbr.__str__ gives
\* "<abbr> (<text>)", Word.__str__ the text of the word, a str itself.
ComponentStr(c) ==
    IF c.type = "Abbr" THEN c.abbr \o << " ", "(" >> \o c.text \o << ")" >>
    ELSE c.text

RECURSIVE Join(_)
Join(components) ==
    IF components = << >> THEN << >>
    ELSE ComponentStr(Head(components)) \o Join(Tail(components))

\* Sentence.text
SentenceText(e) == Strip(Join(e.components))

\* to_dict of each class.  Nested entities are asked with the same flag.
RECURSIVE to_dict(_, _)
to_dict(e, extended) ==
    LET base == FromHTML_to_dict(e, extended)
        each(es) == TList([ i \in 1..Len(es) |-> to_dict(es[i], extended) ])
        when(cond, m, key, value) == IF cond THEN Assign(m, key, value) ELSE m
    IN  CASE e.type = "str" -> TStr(e.text)
          [] e.type = "Abbr" ->
               TDict(Assign(when(extended, Assign(base, "abbr", TStr(e.abbr)),
                                 "class", TStr(e.class)),
                            "text", TStr(e.text)))
          [] e.type = "Word" ->
               LET m1 == Assign(base, "text", TStr(e.text))
                   m2 == when(e.is_active_link, m1, "link", TStr(WordLink(e)))
                   m3 == when(extended, m2, "is_active_link", TBool(e.is_active_link))
               IN  TDict(when(extended /\ ~ e.is_active_link, m3, "link", TStr(WordLink(e))))
          [] e.type = "Sentence" ->
               TDict(when(extended, Assign(base, "text", TStr(SentenceText(e))),
                          "components", each(e.components)))
          [] e.type = "Definition" ->
               LET is(which) == IF Classifier(which, e.category) = "raise" THEN TRaise
                                ELSE TBool(Classifier(which, e.category) = "True")
                   m1 == when(extended, base, "id", TStr(e.id))
                   m2 == Update(m1,
                            [ k \in { "index", "category", "is" } |->
                                CASE k = "index" -> TInt(e.index)
                                  [] k = "category" ->
                                       IF HasAttributes(e.category)
                                         THEN to_dict(e.category, extended) ELSE TRaise
                                  [] k = "is" ->
                                       TDict([ c \in { "adjective", "adverb", "noun",
                                                       "pronoun", "verb" } |->
                                                 CASE c = "adjective" -> is("is_adjective")
                                                   [] c = "adverb"    -> is("is_adverb")
                                                   [] c = "noun"      -> is("is_noun")
                                                   [] c = "pronoun"   -> is("is_pronoun")
                                                   [] c = "verb"      -> is("is_verb") ]) ])
                   m3 == when(extended, m2, "first_of_category", TBool(e.first_of_category))
                   m4 == Update(m3,
                            [ k \in { "abbreviations", "sentence", "examples" } |->
                                CASE k = "abbreviations" -> each(e.abbreviations)
                                  [] k = "sentence" -> to_dict(e.sentence, extended)
                                  [] k = "examples" -> each(e.examples) ])
               IN  TDict(when(extended, m4, "raw_text", TStr(e.raw_text)))
          [] e.type \in { "EntryLema", "ArticleLema" } ->
               LET m1 == Assign(base, "lema", TStr(e.lema))
                   m2 == IF extended
                           THEN Update(m1, [ k \in { "id", "is_foreign" } |->
                                               IF k = "id" THEN TStr(e.id)
                                                           ELSE TBool(e.is_foreign) ])
                           ELSE m1
                   m3 == Update(m2, [ k \in { "index", "female_suffix" } |->
                                        IF k = "index" THEN TInt(e.index)
                                                       ELSE TStr(e.female_suffix) ])
                   m4 == IF extended
                           THEN Update(m3, [ k \in { "is_acronym", "is_prefix", "is_suffix" } |->
                                               CASE k = "is_acronym" -> TBool(is_acronym(e.lema))
                                                 [] k = "is_prefix"  -> TBool(is_prefix(e.lema))
                                                 [] k = "is_suffix"  -> TBool(is_suffix(e.lema)) ])
                           ELSE m3
               IN  TDict(IF e.type = "ArticleLema" THEN m4 ELSE m2)
          [] e.type = "Entry" ->
               LET m1 == Update(base,
                            [ k \in { "lema", "supplementary_info", "definitions" } |->
                                CASE k = "lema" -> to_dict(e.lema, extended)
                                  [] k = "supplementary_info" -> each(e.supplementary_info)
                                  [] k = "definitions" -> each(e.definitions) ])
               IN  TDict(when(extended, m1, "raw_text", TStr(e.raw_text)))
          [] e.type = "Conjugation" ->
               LET m1 == when(extended, base, "id", TStr(e.id))
               IN  TDict(Update(m1, [ k \in { "verb", "conjugations" } |->
                                        IF k = "verb" THEN TStr(e.verb) ELSE e.conjugations ]))
          [] e.type = "Article" ->
               LET m1 == Update(base,
                            [ k \in { "id", "lema", "supplementary_info", "is", "definitions",
                                      "complex_forms", "other_entries" } |->
                                CASE k = "id" -> TStr(e.id)
                                  [] k = "lema" -> to_dict(e.lema, extended)
                                  [] k = "supplementary_info" -> each(e.supplementary_info)
                                  [] k = "is" ->
                                       LET r == ArticleIsVerb(e.conjugations.type # "None",
                                                   [ i \in 1..Len(e.definitions) |->
                                                       e.definitions[i].category ])
                                       IN  TDict(Entry1("verb", IF r = "raise" THEN TRaise
                                                                ELSE TBool(r = "True")))
                                  [] k = "definitions" -> each(e.definitions)
                                  [] k = "complex_forms" -> each(e.complex_forms)
                                  [] k = "other_entries" -> each(e.other_entries) ])
                   m2 == when(e.conjugations.type # "None", m1, "conjugations",
                              to_dict(e.conjugations, extended))
               IN  TDict(when(extended, m2, "raw_text", TStr(e.raw_text)))
          [] e.type = "SearchResult" ->
               LET m1 == Assign(base, "title", TStr(e.title))
                   m2 == IF extended
                           THEN Update(m1, [ k \in { "canonical", "meta_description" } |->
                                               IF k = "canonical" THEN TStr(e.canonical)
                                               ELSE TStr(e.meta_description) ])
                           ELSE m1
               IN  TDict(IF e.articles # << >>
                           THEN Assign(m2, "articles", each(e.articles))
                         ELSE IF DOMAIN e.related_entries # {}
                           THEN Assign(m2, "related_entries",
                                       TDict([ k \in DOMAIN e.related_entries |->
                                                 each(e.related_entries[k]) ]))
                         ELSE m2)

\* The entities.  The html an entity was constructed from is kept as one
\* token.
NoneE == [ type |-> "None", none |-> TRUE, abbr |-> << >>, text |-> << >> ]

AbbrE(html, abbr, class, text) ==
    [ type |-> "Abbr", none |-> FALSE, html |-> html, abbr |-> abbr,
      class |-> class, text |-> text ]

WordE(html, text, href, is_active_link) ==
    [ type |-> "Word", html |-> html, text |-> text, href |-> href,
      is_active_link |-> is_active_link ]

TextE(text) == [ type |-> "str", text |-> text ]

SentenceE(html, components) ==
    [ type |-> "Sentence", html |-> html, components |-> components ]

DefinitionE(html, index, category, abbreviations, sentence, examples) ==
    [ type |-> "Definition", html |-> html, id |-> << "id" >>, index |-> index,
      category |-> category, first_of_category |-> category.type = "Abbr" /\ category.class = << "d" >>,
      abbreviations |-> abbreviations, sentence |-> sentence,
      examples |-> examples, raw_text |-> html ]

EntryLemaE(html, lem, is_foreign) ==
    [ type |-> "EntryLema", html |-> html, lema |-> lem, id |-> << "id" >>,
      is_foreign |-> is_foreign, index |-> 0, female_suffix |-> << >> ]

ArticleLemaE(html, lem, index, female_suffix) ==
    [ type |-> "ArticleLema", html |-> html, lema |-> lem, id |-> << "id" >>,
      is_foreign |-> FALSE, index |-> index, female_suffix |-> female_suffix ]

EntryE(html, lem, info, defs) ==
    [ type |-> "Entry", html |-> html, lema |-> lem,
      supplementary_info |-> info, definitions |-> defs,
      raw_text |-> html ]

ConjugationE(html, id, verb, conjugations) ==
    [ type |-> "Conjugation", html |-> html, id |-> id, verb |-> verb,
      conjugations |-> conjugations ]

ArticleE(html, lem, defs, forms, others, conjugations) ==
    [ type |-> "Article", html |-> html, id |-> << "id" >>, lema |-> lem,
      supplementary_info |-> << >>, definitions |-> defs, complex_forms |-> forms,
      other_entries |-> others, conjugations |-> conjugations, raw_text |-> html ]

SearchResultE(html, arts, related) ==
    [ type |-> "SearchResult", html |-> html, title |-> << "title" >>,
      canonical |-> << "canonical" >>, meta_description |-> << "meta" >>,
      articles |-> arts, related_entries |-> related ]

AbbrEntities ==
    { AbbrE(<< "<abbr 1>" >>, << "a", "d", "j", "." >>, << "d" >>, << "a", "d", "j", "e", "t", "i", "v", "o" >>),
      AbbrE(<< "<abbr 2>" >>, << "t", "r", "." >>, << >>, << "v", "e", "r", "b", "o" >>),
      AbbrE(<< "<abbr 3>" >>, << "s", "." >>, << "g" >>, << "n", "o", "m", "b", "r", "e" >>) }

WordMark == WordE(<< "<mark>" >>, << "c", "a", "s", "a" >>, << "/?id=", "X" >>, FALSE)

WordA == WordE(<< "<a>" >>, << "s", "o", "l" >>, << "/", "sol" >>, TRUE)

WordU == WordE(<< "<span u>" >>, << "u", "n" >>, << >>, FALSE)

WordEntities == { WordMark, WordA, WordU }

SentenceEntities ==
    { SentenceE(<< "<p 0>" >>, << >>),
      SentenceE(<< "<p 1>" >>, << TextE(<< " ", "a", " " >>) >>),
      SentenceE(<< "<p 2>" >>, << WordMark, TextE(<< " " >>), WordA >>),
      SentenceE(<< "<p 3>" >>,
                << CHOOSE a \in AbbrEntities : a.class = << >>, TextE(<< " " >>), WordU >>) }

Gloss == SentenceE(<< "<p 2>" >>, << WordMark, TextE(<< " " >>), WordA >>)

DefinitionEntities ==
    { DefinitionE(<< "<p j>" >>, index, category, abbreviations, Gloss, examples) :
         index \in { 0, 2 },
         category \in AbbrEntities \cup { NoneE },
         abbreviations \in { << >>, << CHOOSE a \in AbbrEntities : a.class = << "g" >> >> },
         examples \in { << >>, << SentenceE(<< "<span h>" >>, << WordA >>) >> } }

EntryLemaEntities ==
    { EntryLemaE(<< "<p k>" >>, << "c", "a", "s", "a" >>, is_foreign) : is_foreign \in BOOLEAN }

ArticleLemaEntities ==
    { ArticleLemaE(<< "<header 1>" >>, << "p", "r", "e", "-" >>, 0, << >>),
      ArticleLemaE(<< "<header 2>" >>, << "O", "N", "U" >>, 0, << >>),
      ArticleLemaE(<< "<header 3>" >>, << "s", "o", "l" >>, 2, << "a" >>) }

\* The definitions with the first abbr as category, and with no category.
SomeDefinitions ==
    { d \in DefinitionEntities :
         /\ d.index = 0 /\ d.abbreviations = << >> /\ d.examples = << >>
         /\ d.category.abbr \in { << "a", "d", "j", "." >>, << "t", "r", "." >>, << >> } }

EntryEntities ==
    { EntryE(<< "<complex_form_entry>" >>, lem, << >>, defs) :
         lem \in EntryLemaEntities, defs \in SeqsUpTo(SomeDefinitions, 1) }

ConjugationEntities ==
    { ConjugationE(<< "<div 1>" >>, << >>, << >>, TDict(EmptyMap)),
      ConjugationE(<< "<div 2>" >>, << "conjugacion", "A" >>, << "a", "m", "a", "r" >>,
                   TDict(Entry1("Indicativo",
                         TDict(Entry1("Presente",
                               TDict(Entry1("yo", TStr(<< "a", "m", "o" >>)))))))) }

ArticleEntities ==
    { ArticleE(<< "<article>" >>, lem, defs, forms, others, conjugations) :
         lem \in { l \in ArticleLemaEntities : l.index = 2 },
         defs \in SeqsUpTo(SomeDefinitions, 1),
         forms \in SeqsUpTo({ f \in EntryEntities : f.definitions = << >> /\ f.lema.is_foreign }, 1),
         others \in { << >>, << WordA >> },
         conjugations \in { NoneE } \cup { c \in ConjugationEntities : c.id # << >> } }

SearchResultEntities ==
    { SearchResultE(<< "<html>" >>, arts, related) :
         arts \in SeqsUpTo({ a \in ArticleEntities :
                               a.complex_forms = << >> /\ a.other_entries = << >>
                               /\ Len(a.definitions) = 1 }, 1),
         related \in { EmptyMap, Entry1("sol", << WordA, WordMark >>) } }

IdleToDict ==
    /\ t_entity = NoneE
    /\ t_compact = TNone
    /\ t_extended = TNone

\* A constructed entity of one of the ten classes.
StartToDict ==
    /\ \/ t_entity \in AbbrEntities
       \/ t_entity \in WordEntities
       \/ t_entity \in SentenceEntities
       \/ t_entity \in DefinitionEntities
       \/ t_entity \in EntryLemaEntities
       \/ t_entity \in ArticleLemaEntities
       \/ t_entity \in EntryEntities
       \/ t_entity \in ConjugationEntities
       \/ t_entity \in ArticleEntities
       \/ t_entity \in SearchResultEntities
    /\ t_compact = TNone
    /\ t_extended = TNone

\* entity.to_dict(extended=False)
ToDictCompact ==
    /\ t_entity.type # "None"
    /\ t_compact' = to_dict(t_entity, FALSE)
    /\ UNCHANGED << t_entity, t_extended >>
    /\ UNCHANGED << avars, svars, dvars, fvars, cvars, lvars, gvars, evars, qvars >>

\* entity.to_dict(extended=True)
ToDictExtended ==
    /\ t_entity.type # "None"
    /\ t_extended' = to_dict(t_entity, TRUE)
    /\ UNCHANGED << t_entity, t_compact >>
    /\ UNCHANGED << avars, svars, dvars, fvars, cvars, lvars, gvars, evars, qvars >>

\* ------------------------------------------------------------------ logger

\* The largest number of calls of init_logger and set_log_level explored.
MaxCalls == 3

\* The largest number of handlers the application attached to the 'pyrae'
\* logger before the first call.
MaxForeignHandlers == 1

\* The log_level arguments: names of levels in either case, and two strings
\* that name no level.
LogLevels == { "debug", "INFO", "Warning", "ERROR", "critical", "verbose", "" }

\* log_level.upper()
Upper(log_level) ==
    CASE log_level = "debug" -> "DEBUG"
      [] log_level = "Warning" -> "WARNING"
      [] log_level = "critical" -> "CRITICAL"
      [] log_level = "verbose" -> "VERBOSE"
      [] OTHER -> log_level

\* The levels of the logging module, by name.
LoggingLevels ==
    [ DEBUG |-> 10, INFO |-> 20, WARNING |-> 30, ERROR |-> 40, CRITICAL |-> 50 ]

\* `isinstance(getattr(logging, log_level, None), int)`
IsLevel(name) == name \in DOMAIN LoggingLevels

\* get_numeric_level raises ValueError on a string that names no level,
InvalidLevel(log_level) == ~ IsLevel(Upper(log_level))

\* and gives the number of the level otherwise.
get_numeric_level(log_level) == LoggingLevels[Upper(log_level)]

\* logging.NOTSET, the level of a logger nobody has set.
NOTSET == 0

NoLogCall == [ fn |-> "", log_level |-> "" ]

\* `if len(logger.handlers) > 0`
AlreadyInitialized_Never(handlers) == FALSE

AlreadyInitialized(handlers) == handlers > 0

IdleLogger ==
    /\ g_initial = 0
    /\ g_handlers = 0
    /\ g_level = NOTSET
    /\ g_propagate = TRUE
    /\ g_current = "None"
    /\ g_call = NoLogCall
    /\ g_result = ""
    /\ g_calls = 0
    /\ g_returned = 0
    /\ g_imported = FALSE

\* logger.py has just been imported: current is None, and the 'pyrae' logger
\* has the handlers the application gave it, if any.
StartLogger ==
    /\ g_initial \in 0..MaxForeignHandlers
    /\ g_handlers = g_initial
    /\ g_level = NOTSET
    /\ g_propagate = TRUE
    /\ g_current = "None"
    /\ g_call = NoLogCall
    /\ g_result = ""
    /\ g_calls = 0
    /\ g_returned = 0
    /\ g_imported = FALSE

\* init_logger(log_level), called by fn, which returns `returns` where
\* init_logger returns.
InitLoggerBody(fn, log_level, returns) ==
    /\ g_calls < MaxCalls
    /\ g_calls' = g_calls + 1
    /\ g_call' = [ fn |-> fn, log_level |-> log_level ]
    /\ IF InvalidLevel(log_level)
         THEN /\ g_result' = "ValueError"
              /\ UNCHANGED << g_handlers, g_level, g_propagate, g_current, g_returned >>
         ELSE /\ g_level' = get_numeric_level(log_level)
              /\ g_returned' = g_returned + 1
              /\ IF AlreadyInitialized(g_handlers)
                   THEN /\ g_result' = returns
                        /\ UNCHANGED << g_handlers, g_propagate, g_current >>
                   ELSE /\ g_propagate' = FALSE
                        /\ g_handlers' = g_handlers + 1
                        /\ g_current' = "pyrae"
                        /\ g_result' = returns
    /\ UNCHANGED g_initial
    /\ UNCHANGED << avars, svars, dvars, fvars, cvars, lvars, tvars, evars, qvars >>

\* logger.init_logger(log_level)
InitLogger ==
    /\ \E log_level \in LogLevels : InitLoggerBody("init_logger", log_level, "pyrae")
    /\ UNCHANGED g_imported

\* dle.set_log_level(log_level): it calls init_logger and returns None; a
\* ValueError of init_logger passes through it.
SetLogLevel ==
    /\ g_imported
    /\ \E log_level \in LogLevels : InitLoggerBody("set_log_level", log_level, "None")
    /\ UNCHANGED g_imported

\* The import of dle: its last statement is set_log_level(log_level='INFO').
ImportDle ==
    /\ ~ g_imported
    /\ InitLoggerBody("import dle", "INFO", "None")
    /\ g_imported' = TRUE

\* ------------------------------------------------------------------ FromHTML, Abbr, Word, Sentence

\* The largest number of children of the element a Sentence is made from.
MaxSentenceChildren == 2

\* The largest number of assignments to the html property that is explored.
MaxSets == 2

\* A node of the tree html.parser makes of a piece of html.  The name "" is
\* a NavigableString and text its characters; an element has the attributes
\* named in attrs, with their values, and its children in kids.  class holds
\* the classes as written, << >> for class="".
Node(name, attrs, class, title, data_id, href, text, kids) ==
    [ name |-> name, attrs |-> attrs, class |-> class, title |-> title,
      data_id |-> data_id, href |-> href, text |-> text, kids |-> kids ]

NoTag == Node("#none", {}, << >>, << >>, << >>, << >>, << >>, << >>)

Txt(text) == Node("", {}, << >>, << >>, << >>, << >>, text, << >>)

AbbrTag(attrs, class, title, kids) ==
    Node("abbr", attrs, class, title, << >>, << >>, << >>, kids)

MarkTag(attrs, data_id, kids) ==
    Node("mark", attrs, << >>, << >>, data_id, << >>, << >>, kids)

AnchorTag(attrs, href, kids) ==
    Node("a", attrs, << >>, << >>, << >>, href, << >>, kids)

SpanTag(attrs, class, kids) ==
    Node("span", attrs, class, << >>, << >>, << >>, << >>, kids)

PTag(kids) == Node("p", {}, << >>, << >>, << >>, << >>, << >>, kids)

\* tag.text, tag.get_text(): the strings below the tag, in document order.
\* No tag of the model is nested deeper than MaxDepth.
MaxDepth == 3

RECURSIVE TextBelow(_, _)
TextBelow(nodes, depth) ==
    IF nodes = << >> \/ depth = 0 THEN << >>
    ELSE (IF Head(nodes).name = "" THEN Head(nodes).text
          ELSE TextBelow(Head(nodes).kids, depth - 1))
         \o TextBelow(Tail(nodes), depth)

NodeText(tag) == TextBelow(<< tag >>, MaxDepth)

\* soup.<name>: the first tag of that name in document order, NoTag where
\* there is none (None in the code).
RECURSIVE FindTag(_, _, _)
FindTag(nodes, name, depth) ==
    IF nodes = << >> \/ depth = 0 THEN NoTag
    ELSE IF Head(nodes).name = name THEN Head(nodes)
    ELSE LET below == FindTag(Head(nodes).kids, name, depth - 1)
         IN  IF below.name # NoTag.name THEN below
             ELSE FindTag(Tail(nodes), name, depth)

SoupTag(html, name) == FindTag(html, name, MaxDepth)

\* tag['class']: the classes of a tag that has the attribute.
ClassList(tag, blank_class) == IF tag.class = << >> THEN blank_class ELSE tag.class

\* The lists a parser gives for class="": [] or [''], by its version.
BlankClassLists == { << >>, << << >> >> }

\* What a run of _parse_html gives: the object as it leaves it, and whether
\* it raised.
Parsed(self) == [ self |-> self, raised |-> FALSE ]

Raising(self) == [ self |-> self, raised |-> TRUE ]

\* FromHTML._parse_html raises on html that is empty.
NoHtml(html) == html = << >>

\* Abbr._parse_html
AbbrParse(self, blank_class) ==
    LET tag == SoupTag(self.html, "abbr")
        s1 == [ self EXCEPT !.abbr = NodeText(tag) ]
        s2 == IF "class" \in tag.attrs
                THEN [ s1 EXCEPT !.class = ClassList(tag, blank_class)[1] ] ELSE s1
    IN  IF NoHtml(self.html) THEN Raising(self)
        ELSE IF tag.name = NoTag.name THEN Raising(self)
        ELSE IF "class" \in tag.attrs /\ ClassList(tag, blank_class) = << >> THEN Raising(s1)
        ELSE IF "title" \notin tag.attrs THEN Raising(s2)
        ELSE Parsed([ s2 EXCEPT !.text = tag.title ])

\* `if self._href and not self._href.startswith('/')`: the href of an anchor
\* is put behind '/' and the parent href, unless it is empty or begins with '/'.
ResolvedHref_Kept(href, parent_href) == href

ResolvedHref(href, parent_href) ==
    IF href # << >> /\ href[1] # "/" THEN << "/" >> \o parent_href \o href ELSE href

\* Word._parse_html with the anchor looked for before the mark.
WordParse_AnchorFirst(self, parent_href, blank_class) ==
    LET mark == SoupTag(self.html, "mark")
        a == SoupTag(self.html, "a")
        s1 == [ self EXCEPT !.text = Strip(NodeText(a)) ]
    IN  IF NoHtml(self.html) THEN Raising(self)
        ELSE IF a.name # NoTag.name
          THEN IF "href" \notin a.attrs THEN Raising(s1)
               ELSE Parsed([ s1 EXCEPT !.href = ResolvedHref(a.href, parent_href),
                                       !.is_active_link = TRUE ])
        ELSE IF mark.name # NoTag.name /\ "data-id" \in mark.attrs
          THEN Parsed([ self EXCEPT !.href = << "/", "?", "i", "d", "=" >> \o mark.data_id,
                                    !.text = NodeText(mark) ])
        ELSE Raising(self)

\* Word._parse_html
WordParse(self, parent_href, blank_class) ==
    LET mark == SoupTag(self.html, "mark")
        a == SoupTag(self.html, "a")
        span == SoupTag(self.html, "span")
        s1 == [ self EXCEPT !.text = Strip(NodeText(a)) ]
        href == ResolvedHref(a.href, parent_href)
    IN  IF NoHtml(self.html) THEN Raising(self)
        ELSE IF mark.name # NoTag.name
          THEN IF "data-id" \notin mark.attrs THEN Raising(self)
               ELSE Parsed([ self EXCEPT !.href = << "/", "?", "i", "d", "=" >> \o mark.data_id,
                                         !.text = NodeText(mark) ])
        ELSE IF a.name # NoTag.name
          THEN IF "href" \notin a.attrs THEN Raising(s1)
               ELSE Parsed([ s1 EXCEPT !.href = href, !.is_active_link = TRUE ])
        ELSE IF span.name # NoTag.name
          THEN IF "class" \notin span.attrs \/ ClassList(span, blank_class) = << >>
                 THEN Raising(self)
               ELSE IF LowerText(ClassList(span, blank_class)[1]) = << "u" >>
                 THEN Parsed([ self EXCEPT !.text = NodeText(span) ])
               ELSE Raising(self)
        ELSE Raising(self)

\* The object at the point where __init__ hands over to FromHTML.__init__.
NewAbbr(html) == AbbrE(html, << >>, << >>, << >>)

NewWord(html) == WordE(html, << >>, << >>, FALSE)

NewSentence(html) == SentenceE(html, << >>)

\* from_html: `try: return cls(html=html)` and `except Exception: return None`.
\* The object of a run of the constructor that raised is never seen.
Caught_Not(run) == IF run.raised THEN [ type |-> "raise" ] ELSE run.self

Caught(run) == IF run.raised THEN NoneE ELSE run.self

\* One turn of the loop with Word asked before Abbr.
Component_WordFirst(tag, ignore_tags, blank_class) ==
    LET abbr == Caught(AbbrParse(NewAbbr(<< tag >>), blank_class))
        word == Caught(WordParse(NewWord(<< tag >>), << >>, blank_class))
    IN  IF tag.name \in ignore_tags THEN << >>
        ELSE IF word.type # "None" THEN << word >>
        ELSE IF abbr.type # "None" THEN << abbr >>
        ELSE << TextE(NodeText(tag)) >>

\* One turn of the loop of Sentence._parse_html gives the component of the
\* tag, << >> where the tag is passed over.
Component(tag, ignore_tags, blank_class) ==
    LET abbr == Caught(AbbrParse(NewAbbr(<< tag >>), blank_class))
        word == Caught(WordParse(NewWord(<< tag >>), << >>, blank_class))
    IN  IF tag.name \in ignore_tags THEN << >>
        ELSE IF abbr.type # "None" THEN << abbr >>
        ELSE IF word.type # "None" THEN << word >>
        ELSE << TextE(NodeText(tag)) >>

RECURSIVE Components(_, _, _)
Components(tags, ignore_tags, blank_class) ==
    IF tags = << >> THEN << >>
    ELSE Component(Head(tags), ignore_tags, blank_class)
         \o Components(Tail(tags), ignore_tags, blank_class)

\* Sentence._parse_html: self._soup.contents[0].children raises on a string,
\* which has no children; the components are appended to those the object has.
SentenceParse(self, ignore_tags, blank_class) ==
    IF NoHtml(self.html) THEN Raising(self)
    ELSE IF self.html[1].name = "" THEN Raising(self)
    ELSE Parsed([ self EXCEPT !.components =
                     @ \o Components(self.html[1].kids, ignore_tags, blank_class) ])

EntityClasses == { "Abbr", "Word", "Sentence" }

\* The arguments of a constructor besides html, at their defaults:
\* ignore_tags=() of Sentence and parent_href='' of Word.
DefaultArgs == [ ignore_tags |-> {}, parent_href |-> << >> ]

\* The arguments the decoders of the package give: Definition makes its
\* gloss with ignore_tags=('abbr', 'span'), Article the Word of a paragraph
\* of class l with parent_href=self._id, which is '' for an article without id.
GivenArgs(cls) ==
    CASE cls = "Sentence" -> { [ ignore_tags |-> { "abbr", "span" }, parent_href |-> << >> ] }
      [] cls = "Word" -> { [ ignore_tags |-> {}, parent_href |-> << "I", "d" >> ] }
      [] OTHER -> {}

\* self._parse_html() of an object of the class; args holds what __init__
\* kept of its other arguments in self._ignore_tags and self._parent_href.
ParseHtmlWith(cls, self, args, blank_class) ==
    CASE cls = "Abbr" -> AbbrParse(self, blank_class)
      [] cls = "Word" -> WordParse(self, args.parent_href, blank_class)
      [] cls = "Sentence" -> SentenceParse(self, args.ignore_tags, blank_class)

ParseHtml(cls, self, blank_class) == ParseHtmlWith(cls, self, DefaultArgs, blank_class)

\* cls(html=html, ...): __init__ sets the fields and assigns html, which parses.
ConstructWith(cls, html, args, blank_class) ==
    ParseHtmlWith(cls, CASE cls = "Abbr" -> NewAbbr(html)
                         [] cls = "Word" -> NewWord(html)
                         [] cls = "Sentence" -> NewSentence(html), args, blank_class)

\* cls(html=html)
Construct(cls, html, blank_class) == ConstructWith(cls, html, DefaultArgs, blank_class)

\* The tags the model makes its html of.
AbbrTags ==
    { AbbrTag({ "class", "title" }, << << "d" >> >>, << "a", "d", "j" >>, << Txt(<< "a", "." >>) >>),
      AbbrTag({ "title" }, << >>, << >>, << Txt(<< "a", "." >>) >>),
      AbbrTag({ "class" }, << << "d" >> >>, << >>, << Txt(<< "a", "." >>) >>),
      AbbrTag({ "class", "title" }, << >>, << "a", "d", "j" >>, << Txt(<< "a", "." >>) >>) }

MarkTags ==
    { MarkTag({ "data-id" }, << "X" >>, << Txt(<< "c" >>) >>),
      MarkTag({}, << >>, << Txt(<< "c" >>) >>) }

AnchorTags ==
    { AnchorTag({ "href" }, << "/", "s" >>, << Txt(<< " ", "s", " " >>) >>),
      AnchorTag({ "href" }, << "s" >>, << Txt(<< "s" >>) >>),
      AnchorTag({ "href" }, << >>, << Txt(<< "s" >>) >>),
      AnchorTag({}, << >>, << Txt(<< "s" >>) >>) }

SpanTags ==
    { SpanTag({ "class" }, << << "u" >> >>, << Txt(<< "u", "n" >>) >>),
      SpanTag({ "class" }, << << "U" >> >>, << Txt(<< "u", "n" >>) >>),
      SpanTag({ "class" }, << << "h" >> >>, << Txt(<< "e" >>) >>),
      SpanTag({ "class" }, << << "h" >> >>,
              << MarkTag({ "data-id" }, << "X" >>, << Txt(<< "c" >>) >>), Txt(<< " " >>) >>),
      SpanTag({ "class" }, << >>, << Txt(<< "e" >>) >>),
      SpanTag({}, << >>, << Txt(<< "e" >>) >>) }

TextNodes == { Txt(<< " ", "a", " " >>) }

\* The children of the element a Sentence is made from.
SentenceChildren ==
    TextNodes
    \cup { t \in AbbrTags : t.attrs = { "class", "title" } /\ t.class # << >> }
    \cup { t \in MarkTags : t.attrs # {} }
    \cup { t \in AnchorTags : t.href = << "s" >> }
    \cup { t \in SpanTags : t.class = << << "h" >> >> /\ Len(t.kids) = 1 }
    \cup { AbbrTag({ "title" }, << >>, << "v", "." >>,
                   << MarkTag({ "data-id" }, << "X" >>, << Txt(<< "c" >>) >>) >>) }

\* Html that holds more than one of the tags Word looks for.
MixedHtmls ==
    { << AnchorTag({ "href" }, << "/", "s" >>, << Txt(<< "s" >>) >>),
         MarkTag({ "data-id" }, << "X" >>, << Txt(<< "c" >>) >>) >>,
      << SpanTag({ "class" }, << << "u" >> >>,
                 << AnchorTag({ "href" }, << "s" >>, << Txt(<< "s" >>) >>) >>) >>,
      << SpanTag({ "class" }, << << "h" >> >>, << Txt(<< "e" >>) >>),
         SpanTag({ "class" }, << << "u" >> >>, << Txt(<< "u", "n" >>) >>) >> }

\* The html given to the classes: none, one tag or string, or a paragraph.
Htmls ==
    { << >> }
    \cup { << t >> : t \in AbbrTags \cup MarkTags \cup AnchorTags \cup SpanTags \cup TextNodes }
    \cup { << PTag(kids) >> : kids \in SeqsUpTo(SentenceChildren, MaxSentenceChildren) }
    \cup MixedHtmls

Unbuilt == [ type |-> "unbuilt" ]

IdleEntity ==
    /\ e_cls = ""
    /\ e_html = << >>
    /\ e_blank_class = << >>
    /\ e_args = DefaultArgs
    /\ e_obj = Unbuilt
    /\ e_built = Unbuilt
    /\ e_from = Unbuilt
    /\ e_result = TNone
    /\ e_sets = 0

StartEntity ==
    /\ e_cls \in EntityClasses
    /\ e_html \in Htmls
    /\ e_blank_class \in BlankClassLists
    /\ e_args = DefaultArgs
    /\ e_obj = Unbuilt
    /\ e_built = Unbuilt
    /\ e_from = Unbuilt
    /\ e_result = TNone
    /\ e_sets = 0

\* obj = cls(html=html)
EntityConstruct ==
    /\ e_obj = Unbuilt
    /\ e_obj' = Caught_Not(Construct(e_cls, e_html, e_blank_class))
    /\ e_built' = e_obj'
    /\ UNCHANGED << e_cls, e_html, e_blank_class, e_args, e_from, e_result, e_sets >>
    /\ UNCHANGED << avars, svars, dvars, fvars, cvars, lvars, tvars, gvars, qvars >>

\* obj = Sentence(html=html, ignore_tags=...) and obj = Word(html=html,
\* parent_href=...), as Definition and Article construct them.
EntityConstructWith ==
    /\ e_obj = Unbuilt
    /\ \E args \in GivenArgs(e_cls) :
         /\ e_args' = args
         /\ e_obj' = Caught_Not(ConstructWith(e_cls, e_html, args, e_blank_class))
    /\ e_built' = e_obj'
    /\ UNCHANGED << e_cls, e_html, e_blank_class, e_from, e_result, e_sets >>
    /\ UNCHANGED << avars, svars, dvars, fvars, cvars, lvars, tvars, gvars, qvars >>

\* cls.from_html(html=html)
EntityFromHtml ==
    /\ e_from = Unbuilt
    /\ e_from' = Caught(Construct(e_cls, e_html, e_blank_class))
    /\ UNCHANGED << e_cls, e_html, e_blank_class, e_args, e_obj, e_built, e_result, e_sets >>
    /\ UNCHANGED << avars, svars, dvars, fvars, cvars, lvars, tvars, gvars, qvars >>

Constructed == e_obj.type \in EntityClasses

\* obj.html = value: the setter stores the value and runs _parse_html on the
\* object as it is.  Where that raises, the object keeps what was assigned
\* before the raise.
EntitySetHtml ==
    /\ Constructed
    /\ e_sets < MaxSets
    /\ \E value \in { e_obj.html, << >>, << PTag(<< Txt(<< " ", "a", " " >>) >>) >> } :
         LET run == ParseHtmlWith(e_cls, [ e_obj EXCEPT !.html = value ], e_args, e_blank_class)
         IN  /\ e_obj' = run.self
             /\ e_result' = IF run.raised THEN TRaise ELSE TNone
    /\ e_sets' = e_sets + 1
    /\ UNCHANGED << e_cls, e_html, e_blank_class, e_args, e_built, e_from >>
    /\ UNCHANGED << avars, svars, dvars, fvars, cvars, lvars, tvars, gvars, qvars >>

\* obj.to_dict(extended=extended)
EntityToDict ==
    /\ Constructed
    /\ \E extended \in BOOLEAN : e_result' = to_dict(e_obj, extended)
    /\ UNCHANGED << e_cls, e_html, e_blank_class, e_args, e_obj, e_built, e_from, e_sets >>
    /\ UNCHANGED << avars, svars, dvars, fvars, cvars, lvars, tvars, gvars, qvars >>

\* str(obj): Abbr.__str__, Word.__str__, Sentence.__str__
EntityStr ==
    /\ Constructed
    /\ e_result' = TStr(IF e_cls = "Sentence" THEN SentenceText(e_obj) ELSE ComponentStr(e_obj))
    /\ UNCHANGED << e_cls, e_html, e_blank_class, e_args, e_obj, e_built, e_from, e_sets >>
    /\ UNCHANGED << avars, svars, dvars, fvars, cvars, lvars, tvars, gvars, qvars >>

\* ------------------------------------------------------------------ Conjugation

\* The largest number of rows of a conjugation table that is explored.
MaxRows == 3

\* `if cell_index < 3: continue`
StructuralCells == 3

\* A text, as its words: they stand in the text with one space between them.
RECURSIVE JoinWords(_)
JoinWords(words) ==
    IF words = << >> THEN ""
    ELSE IF Len(words) = 1 THEN words[1]
    ELSE words[1] \o " " \o JoinWords(Tail(words))

\* A cell of a row: a th or a td and the words of its text.  An empty cell
\* has no string (tag.string is None).
Cell(name, words) == [ name |-> name, words |-> words ]

MoodRow ==
    << Cell("th", << >>), Cell("th", << >>), Cell("th", << >>),
       Cell("th", << "Indicativo" >>) >>

TenseRow ==
    << Cell("th", << >>), Cell("th", << >>), Cell("th", << "Pronombres" >>),
       Cell("th", << "presente" >>), Cell("th", << "Futuro", "simple", "/", "Futuro" >>) >>

DataRow ==
    << Cell("td", << >>), Cell("td", << >>), Cell("td", << "yo" >>),
       Cell("td", << "amo" >>), Cell("td", << "amare", "o", "amase" >>) >>

ImperativeRow ==
    << Cell("th", << >>), Cell("th", << >>), Cell("th", << "Imperativo" >>),
       Cell("td", << "ama" >>) >>

Rows == { MoodRow, TenseRow, DataRow, ImperativeRow }

\* The verbs of the header: the first letter decides the separator.
Verbs == { "amar", "oler" }

Table(verb, rows) == [ verb |-> verb, rows |-> rows ]

\* The tables of the first object, and those of the second, which holds
\* rows of data only.
Tables == { Table(verb, rows) : verb \in Verbs, rows \in SeqsUpTo(Rows, MaxRows) }

OtherTables == { Table("amar", rows) : rows \in SeqsUpTo({ DataRow }, MaxRows) }

\* CONJUGATION_BASE_DICT, the accents of its keys left out.
CONJUGATION_BASE_DICT ==
    LET forms == { "Infinitivo", "Gerundio", "Participio" }
        indicative == { "Presente", "Copreterito", "Preterito", "Futuro", "Pospreterito" }
        subjunctive == { "Presente", "Futuro", "Copreterito" }
    IN  Dict([ k \in { "Formas no personales", "Indicativo", "Subjuntivo", "Imperativo" } |->
                 CASE k = "Formas no personales" -> Dict([ j \in forms |-> Str("") ])
                   [] k = "Indicativo" -> Dict([ j \in indicative |-> Dict(EmptyMap) ])
                   [] k = "Subjuntivo" -> Dict([ j \in subjunctive |-> Dict(EmptyMap) ])
                   [] OTHER -> Dict(EmptyMap) ])

\* EntryLema.PROCESSING_TAGS and Entry.PROCESSING_TAGS, as the class bodies
\* write them.
TagAndClass(tag, class) ==
    Dict([ k \in { "tag", "class" } |-> IF k = "tag" THEN Str(tag) ELSE Str(class) ])

EntryLemaTags == Dict([ k \in { "lema" } |-> TagAndClass("p", "k") ])

EntryTags ==
    Dict([ k \in { "supplementary_info", "definition" } |->
             IF k = "definition" THEN TagAndClass("p", "m") ELSE TagAndClass("p", "n") ])

\* The objects that hold a dictionary: the class attributes and the
\* _conjugations of each of the two Conjugation objects.
Objects == 1..2

ConjugationsOf(i) == IF i = 1 THEN "self1._conjugations" ELSE "self2._conjugations"

DictionaryRefs ==
    { "Conjugation.CONJUGATION_BASE_DICT", "EntryLema.PROCESSING_TAGS",
      "Entry.PROCESSING_TAGS", "ArticleLema.PROCESSING_TAGS", "Article.PROCESSING_TAGS" }
    \cup { ConjugationsOf(i) : i \in Objects }

\* deepcopy(d): the copy is a dictionary of its own, at the place made for it.
deepcopy_Same(ref, place) == ref

deepcopy(ref, place) == place

\* The heap after `x = deepcopy(d)`, x being the place the copy is bound to.
Copied(heap, ref, place) == [ heap EXCEPT ![deepcopy(ref, place)] = heap[ref] ]

\* d[k1][k2] = value and d[k] = value on the dictionary at ref.
SetItem2(heap, ref, k1, k2, value) ==
    [ heap EXCEPT ![ref] = Dict(Assign(@.m, k1, Dict(Assign(@.m[k1].m, k2, value)))) ]

SetItem(heap, ref, k, value) == [ heap EXCEPT ![ref] = Dict(Assign(@.m, k, value)) ]

\* The dictionary ArticleLema.PROCESSING_TAGS and Article.PROCESSING_TAGS
\* are bound to.
ArticleLemaTagsRef == deepcopy("EntryLema.PROCESSING_TAGS", "ArticleLema.PROCESSING_TAGS")

ArticleTagsRef == deepcopy("Entry.PROCESSING_TAGS", "Article.PROCESSING_TAGS")

\* The heap once core.py is imported: the class bodies have run, in order.
Imported ==
    LET h0 == [ ref \in DictionaryRefs |->
                  CASE ref = "Conjugation.CONJUGATION_BASE_DICT" -> CONJUGATION_BASE_DICT
                    [] ref = "EntryLema.PROCESSING_TAGS" -> EntryLemaTags
                    [] ref = "Entry.PROCESSING_TAGS" -> EntryTags
                    [] OTHER -> Dict(EmptyMap) ]
        h1 == Copied(h0, "EntryLema.PROCESSING_TAGS", "ArticleLema.PROCESSING_TAGS")
        h2 == SetItem2(h1, ArticleLemaTagsRef, "lema", "tag", Str("header"))
        h3 == SetItem2(h2, ArticleLemaTagsRef, "lema", "class", Str("f"))
        h4 == Copied(h3, "Entry.PROCESSING_TAGS", "Article.PROCESSING_TAGS")
        h5 == SetItem2(h4, ArticleTagsRef, "definition", "class", Str("j"))
    IN  SetItem(h5, ArticleTagsRef, "other", TagAndClass("p", "l"))

\* re.IGNORECASE, on the words of the model.
LowerWord(word) ==
    CASE word = "Presente" -> "presente"
      [] word = "Futuro" -> "futuro"
      [] word = "Indicativo" -> "indicativo"
      [] OTHER -> word

\* re.search(pattern=f'/ {key}' if key != 'Presente' else key, string=header_text,
\* flags=re.IGNORECASE).  No word of the model holds a key without being it.
HeaderSearch(key, words) ==
    IF key = "Presente"
      THEN \E j \in 1..Len(words) : LowerWord(words[j]) = LowerWord(key)
      ELSE \E j \in 1..(Len(words) - 1) :
               words[j] = "/" /\ LowerWord(words[j + 1]) = LowerWord(key)

\* next((key for key in ... if re.search(...)), ''): no header of the model
\* is found by two keys.
SubTypeKey(keys, words) ==
    IF \E key \in keys : key # "" /\ HeaderSearch(key, words)
      THEN CHOOSE key \in keys : key # "" /\ HeaderSearch(key, words)
      ELSE ""

\* verb_separators, as the words they are between two words.
VerbSeparators(verb) ==
    << IF verb \in { "oler" } THEN "u" ELSE "o", "/" >>

\* verbs.split(verb_separator) for the first separator the text holds: a
\* list, written as a str is, for neither is a dict.
RECURSIVE SplitWords(_, _)
SplitWords(words, separator) ==
    IF words = << >> THEN ""
    ELSE IF Len(words) = 1 THEN words[1]
    ELSE IF words[2] = separator THEN words[1] \o ", " \o SplitWords(Tail(Tail(words)), separator)
    ELSE words[1] \o " " \o SplitWords(Tail(words), separator)

Verbs_Of(words, verb) ==
    LET seps == VerbSeparators(verb)
        between(sep) == \E j \in 2..(Len(words) - 1) : words[j] = sep
    IN  IF between(seps[1]) THEN Str("[" \o SplitWords(words, seps[1]) \o "]")
        ELSE IF between(seps[2]) THEN Str("[" \o SplitWords(words, seps[2]) \o "]")
        ELSE Str(JoinWords(words))

\* An object while its table is scanned: the dictionary it writes, the
\* loop's type_key and sub_type_keys_dict, whether it raised, and the cells
\* it took as headers and as data (with the persona of each).
Scan(conj, type_key, sub, raised, headers, written) ==
    [ conj |-> conj, type_key |-> type_key, sub |-> sub, raised |-> raised,
      headers |-> headers, written |-> written ]

NoSubTypes == [ c \in {} |-> "" ]

\* `if cell_index < 3: continue`
Skipped_Two(cell_index) == cell_index < StructuralCells - 1

Skipped(cell_index) == cell_index < StructuralCells

\* One turn of `for cell_index, cell_tag in enumerate(row_tag.contents)`,
\* on row r.
CellStep(st, verb, r, row, cell_index) ==
    LET cell == row[cell_index + 1]
        header_text == JoinWords(cell.words)
        persona == JoinWords(row[3].words)
        verbs == Verbs_Of(cell.words, verb)
        data_value == IF persona # "" THEN Dict([ k \in { persona } |-> verbs ]) ELSE verbs
        keys == IF st.sub = NoSubTypes THEN << st.type_key >>
                ELSE << st.type_key, st.sub[cell_index] >>
        result == nested_dictionary_set(st.conj, keys, data_value, TRUE, TRUE)
    IN  IF st.raised \/ Skipped(cell_index) THEN st
        ELSE IF cell.name = "th"
          THEN IF header_text \in DOMAIN st.conj.m
                 THEN [ st EXCEPT !.type_key = header_text, !.sub = NoSubTypes,
                                  !.headers = @ \cup { << r, cell_index >> } ]
               ELSE IF st.type_key \notin DOMAIN st.conj.m
                       \/ st.conj.m[st.type_key].t # "dict"
                 THEN [ st EXCEPT !.raised = TRUE ]
               ELSE [ st EXCEPT !.sub = [ c \in DOMAIN @ \cup { cell_index } |->
                                            IF c = cell_index
                                              THEN SubTypeKey(DOMAIN st.conj.m[st.type_key].m,
                                                              cell.words)
                                              ELSE @[c] ],
                                !.headers = @ \cup { << r, cell_index >> } ]
        ELSE IF cell.name = "td"
          THEN IF st.sub # NoSubTypes /\ cell_index \notin DOMAIN st.sub
                 THEN [ st EXCEPT !.raised = TRUE ]
               ELSE IF result.t = "raise" THEN [ st EXCEPT !.raised = TRUE ]
               ELSE [ st EXCEPT !.conj = result,
                                !.written = @ \cup { << r, cell_index, persona >> } ]
        ELSE st

\* One turn of `for row_tag in table_tag.children`: every cell of the row.
RECURSIVE RowStep(_, _, _, _, _)
RowStep(st, verb, r, row, cell_index) ==
    IF cell_index >= Len(row) THEN st
    ELSE RowStep(CellStep(st, verb, r, row, cell_index), verb, r, row, cell_index + 1)

\* Conjugation(html=...) of a table by itself, from the dictionary the class
\* is written with.
RECURSIVE ScanRows(_, _, _)
ScanRows(st, table, r) ==
    IF r > Len(table.rows) THEN st
    ELSE ScanRows(RowStep(st, table.verb, r, table.rows[r], 0), table, r + 1)

Alone(table) ==
    ScanRows(Scan(CONJUGATION_BASE_DICT, "", NoSubTypes, FALSE, {}, {}), table, 1)

NewConjugation(i) ==
    [ pc |-> "new", row |-> 1, type_key |-> "", sub |-> NoSubTypes,
      ref |-> ConjugationsOf(i), headers |-> {}, written |-> {} ]

IdleConjugation ==
    /\ q_tables = << >>
    /\ q_heap = << >>
    /\ q_self = << >>

\* core.py is imported, and two Conjugation objects are about to parse the
\* table of their html; __init__ gave each a dictionary of its own, {}.
StartConjugation ==
    /\ q_tables \in { << t1, t2 >> : t1 \in Tables, t2 \in OtherTables }
    /\ q_heap = Imported
    /\ q_self = [ i \in Objects |-> NewConjugation(i) ]

\* self._conjugations = deepcopy(self.CONJUGATION_BASE_DICT)
ConjugationCopy ==
    \E i \in Objects :
        /\ q_self[i].pc = "new"
        /\ q_heap' = Copied(q_heap, "Conjugation.CONJUGATION_BASE_DICT", ConjugationsOf(i))
        /\ q_self' = [ q_self EXCEPT ![i].pc = "scan",
                          ![i].ref = deepcopy("Conjugation.CONJUGATION_BASE_DICT",
                                              ConjugationsOf(i)) ]
        /\ UNCHANGED q_tables
        /\ UNCHANGED << avars, svars, dvars, fvars, cvars, lvars, tvars, gvars, evars >>

\* One turn of `for row_tag in table_tag.children` of one of the objects.
\* What it wrote before it raised stays written.
ConjugationRow ==
    \E i \in Objects :
        /\ q_self[i].pc = "scan"
        /\ q_self[i].row <= Len(q_tables[i].rows)
        /\ LET self == q_self[i]
               st == RowStep(Scan(q_heap[self.ref], self.type_key, self.sub, FALSE,
                                  self.headers, self.written),
                             q_tables[i].verb, self.row, q_tables[i].rows[self.row], 0)
           IN  /\ q_heap' = [ q_heap EXCEPT ![self.ref] = st.conj ]
               /\ q_self' = [ q_self EXCEPT ![i] =
                                [ self EXCEPT !.pc = IF st.raised THEN "failed" ELSE "scan",
                                              !.row = @ + 1,
                                              !.type_key = st.type_key,
                                              !.sub = st.sub,
                                              !.headers = st.headers,
                                              !.written = st.written ] ]
        /\ UNCHANGED q_tables
        /\ UNCHANGED << avars, svars, dvars, fvars, cvars, lvars, tvars, gvars, evars >>

\* The loop is over: the constructor returns.
ConjugationDone ==
    \E i \in Objects :
        /\ q_self[i].pc = "scan"
        /\ q_self[i].row > Len(q_tables[i].rows)
        /\ q_self' = [ q_self EXCEPT ![i].pc = "done" ]
        /\ UNCHANGED << q_tables, q_heap >>
        /\ UNCHANGED << avars, svars, dvars, fvars, cvars, lvars, tvars, gvars, evars >>

\* ------------------------------------------------------------------ specifications

InitArticle == StartArticle /\ IdleSearch /\ IdleDict /\ IdleDefinition /\ IdleClassify /\ IdleLema /\ IdleToDict /\ IdleLogger /\ IdleEntity /\ IdleConjugation

NextArticle ==
    \/ ArticleCheck
    \/ ArticleScan
    \/ ArticleFinish

SpecArticle == InitArticle /\ [][NextArticle]_vars

InitSearch == StartSearch /\ IdleArticle /\ IdleDict /\ IdleDefinition /\ IdleClassify /\ IdleLema /\ IdleToDict /\ IdleLogger /\ IdleEntity /\ IdleConjugation

NextSearch ==
    \/ SearchArticle
    \/ SearchRelated
    \/ SearchDone

SpecSearch == InitSearch /\ [][NextSearch]_vars

InitDict == StartDict /\ IdleArticle /\ IdleSearch /\ IdleDefinition /\ IdleClassify /\ IdleLema /\ IdleToDict /\ IdleLogger /\ IdleEntity /\ IdleConjugation

NextDict == DictSet

SpecDict == InitDict /\ [][NextDict]_vars

InitDefinition == StartDefinition /\ IdleArticle /\ IdleSearch /\ IdleDict /\ IdleClassify /\ IdleLema /\ IdleToDict /\ IdleLogger /\ IdleEntity /\ IdleConjugation

NextDefinition ==
    \/ DefinitionCheck
    \/ DefinitionScan
    \/ DefinitionFinish

SpecDefinition == InitDefinition /\ [][NextDefinition]_vars

InitClassify == StartClassify /\ IdleArticle /\ IdleSearch /\ IdleDict /\ IdleDefinition /\ IdleLema /\ IdleToDict /\ IdleLogger /\ IdleEntity /\ IdleConjugation

NextClassify ==
    \/ EvalClassifier
    \/ EvalArticleIsVerb

SpecClassify == InitClassify /\ [][NextClassify]_vars

InitLema == StartLema /\ IdleArticle /\ IdleSearch /\ IdleDict /\ IdleDefinition /\ IdleClassify /\ IdleToDict /\ IdleLogger /\ IdleEntity /\ IdleConjugation

NextLema ==
    \/ LemaParse
    \/ LemaFlags

SpecLema == InitLema /\ [][NextLema]_vars

InitToDict == StartToDict /\ IdleArticle /\ IdleSearch /\ IdleDict /\ IdleDefinition /\ IdleClassify /\ IdleLema /\ IdleLogger /\ IdleEntity /\ IdleConjugation

NextToDict ==
    \/ ToDictCompact
    \/ ToDictExtended

SpecToDict == InitToDict /\ [][NextToDict]_vars

InitLog == StartLogger /\ IdleArticle /\ IdleSearch /\ IdleDict /\ IdleDefinition /\ IdleClassify /\ IdleLema /\ IdleToDict /\ IdleEntity /\ IdleConjugation

NextLog ==
    \/ InitLogger
    \/ SetLogLevel
    \/ ImportDle

SpecLogger == InitLog /\ [][NextLog]_vars

InitEntity == StartEntity /\ IdleArticle /\ IdleSearch /\ IdleDict /\ IdleDefinition /\ IdleClassify /\ IdleLema /\ IdleToDict /\ IdleLogger /\ IdleConjugation

NextEntity ==
    \/ EntityConstruct
    \/ EntityConstructWith
    \/ EntityFromHtml
    \/ EntitySetHtml
    \/ EntityToDict
    \/ EntityStr

SpecEntity == InitEntity /\ [][NextEntity]_vars

InitConjugation == StartConjugation /\ IdleArticle /\ IdleSearch /\ IdleDict /\ IdleDefinition /\ IdleClassify /\ IdleLema /\ IdleToDict /\ IdleLogger /\ IdleEntity

NextConjugation ==
    \/ ConjugationCopy
    \/ ConjugationRow
    \/ ConjugationDone

SpecConjugation == InitConjugation /\ [][NextConjugation]_vars

\* ---- properties of the article segmenter

Child == 1..Len(children)

\* The complex forms opened by a class-k paragraph that precedes child c.
OpenedBefore(c) ==
    { f \in 1..Len(complex_forms_tags) : Head(complex_forms_tags[f]) < c }

\* The most recently opened of them.
MostRecent(c) == CHOOSE f \in OpenedBefore(c) : \A g \in OpenedBefore(c) : g <= f

InLemaEntry(c) == c \in Range(lema_entry_tag)

InForm(c, f) == c \in Range(complex_forms_tags[f])

\* The child whose branch raised, 0 when no branch did.
RaisedOn ==
    IF a_pc = "failed" /\ a_error \in {"AttributeError", "Word"}
      THEN contents[iter - 1] ELSE 0

C2_AsClaimed ==
    \A c \in Child :
        (children[c] \in {"j", "m", "n"}
            /\ \A b \in 1..(c - 1) : children[b] # "k") =>
            /\ RaisedOn # c
            /\ a_pc = "done" => c \in Range(definitions) \cup Range(supplementary_info)

\* C3, as claimed: in the built article no header, definition, note or
\* lemma child was passed over, every class-l child is a cross-reference,
\* there is one complex form per class-k child, in their order, and the
\* definitions and the cross-references are in document order.
C3_AsClaimed ==
    a_pc = "done" =>
        /\ \A c \in Child :
             children[c] \in {"header", "j", "m", "n", "k"} =>
                \/ InLemaEntry(c)
                \/ \E f \in 1..Len(complex_forms_tags) : InForm(c, f)
        /\ \A c \in Child : children[c] = "l" => c \in Range(other_entries)
        /\ [f \in 1..Len(complex_forms) |-> complex_forms[f].lema]
              = SelectSeq([i \in Child |-> i], LAMBDA c : children[c] = "k")
        /\ Increasing(definitions)
        /\ Increasing(other_entries)

\* ---- properties of the search-result aggregator

\* The conjugation table the loop looks up for the article taken from child
\* src: its next div#conjugacion sibling, 0 when there is none.
TableOf(src) == NextOf("conj", src)

\* The href that refers to table c.
TargetOf(c) == "#" \o ConjugationId(items[c].tid)

HasAnchorTo(art, c) ==
    \E n \in 1..Len(art.anchors) : art.anchors[n].href = TargetOf(c)

\* C4, as claimed: a constructed SearchResult never has both articles and
\* related entries.
C4_AsClaimed ==
    s_pc = "done" => (articles = << >> \/ DOMAIN related_entries = {})

\* C5, as claimed: the construction of a SearchResult never fails on an
\* article, a conjugation table or a related entry that does not decode.
C5_AsClaimed == s_pc # "failed"

\* C5, amended: an article, a looked-up conjugation table or a related link
\* that does not decode makes the whole construction fail with that error;
\* a SearchResult is constructed only when every article child and every
\* table looked up for one decoded, and it then holds one Article per
\* article child, in document order.
C5_FailureAborts ==
    /\ s_pc = "done" =>
         /\ [k \in 1..Len(articles) |-> articles[k].src]
               = SelectSeq([i \in 1..Len(items) |-> i], LAMBDA i : items[i].t = "article")
         /\ \A k \in 1..Len(articles) :
               TableOf(articles[k].src) # 0 => items[TableOf(articles[k].src)].ok
    /\ s_pc = "failed" =>
         /\ s_error \in {"Article", "Conjugation", "Word"}
         /\ s_error = "Article" =>
               \A k \in 1..Len(articles) : articles[k].src # article_pos
         /\ s_error = "Conjugation" => ~ items[TableOf(article_pos)].ok
         /\ s_error = "Word" => related_pos # 0

\* The construction failed on an article although an earlier article of the
\* page had been decoded.
C5_Witness ==
    /\ s_pc = "failed"
    /\ s_error = "Article"
    /\ articles # << >>

\* C6: an article whose conjugation is set holds an anchor whose href is
\* '#' followed by the identifier of that conjugation.
C6_AttachedIsReferenced ==
    \A k \in 1..Len(articles) :
        articles[k].conjugations # 0 => HasAnchorTo(articles[k], articles[k].conjugations)

\* Two articles precede one table: the first, which the table does not
\* follow immediately, got it; the second, with no anchor to it, did not.
C6_Witness ==
    /\ s_pc = "done"
    /\ \E k, n \in 1..Len(articles) :
         /\ k < n
         /\ articles[k].conjugations > articles[n].src
         /\ articles[n].conjugations = 0
         /\ TableOf(articles[n].src) = articles[k].conjugations

\* C7, as claimed: an article followed by a conjugation table that decodes
\* has it attached when any of its anchors has the href '#<identifier>', and
\* has no conjugation when none has.
C7_AsClaimed ==
    \A k \in 1..Len(articles) :
        LET c == TableOf(articles[k].src)
        IN  (c # 0 /\ items[c].ok) =>
               articles[k].conjugations = IF HasAnchorTo(articles[k], c) THEN c ELSE 0

\* C7, amended: an article followed by a conjugation table that decodes has
\* it attached exactly when the first of its anchors with a class that
\* starts with e has the href '#<identifier>'; an article with no such
\* anchor, or with no table after it, has no conjugation.
C7_FirstEAnchorDecides ==
    \A k \in 1..Len(articles) :
        LET c   == TableOf(articles[k].src)
            as  == articles[k].anchors
            hit == \E n \in 1..Len(as) :
                      /\ as[n].e
                      /\ \A j \in 1..(n - 1) : ~ as[j].e
                      /\ as[n].href = TargetOf(c)
        IN  /\ c = 0 => articles[k].conjugations = 0
            /\ (c # 0 /\ items[c].ok) =>
                  articles[k].conjugations = IF hit THEN c ELSE 0

\* A table is attached through the article's second anchor: its first
\* anchor has no class that starts with e.
C7_Witness ==
    /\ s_pc = "done"
    /\ \E k \in 1..Len(articles) :
         /\ Len(articles[k].anchors) = 2
         /\ ~ articles[k].anchors[1].e
         /\ articles[k].anchors[2].e
         /\ articles[k].conjugations # 0

\* ---- properties of nested_dictionary_set

\* What dictionary d holds at the end of path keys, Missing when the path
\* leads nowhere.
RECURSIVE Lookup(_, _)
Lookup(d, keys) ==
    IF keys = << >> THEN d
    ELSE IF d.t # "dict" THEN Missing
    ELSE IF Head(keys) \notin DOMAIN d.m THEN Missing
    ELSE Lookup(d.m[Head(keys)], Tail(keys))

Prefix(keys, n) == SubSeq(keys, 1, n)

IsPrefix(p, q) == Len(p) <= Len(q) /\ Prefix(q, Len(p)) = p

\* The paths looked at: one key longer than the longest sequence of keys.
ProbePaths == SeqsUpTo(Keys, MaxKeys + 1) \ { << >> }

\* The last call was made with the default flags.
DefaultCall ==
    d_result # "none" /\ d_call.create_missing /\ d_call.update_if_dicts

\* C8: a call that writes a map where the dictionary holds a map returns
\* with the two merged: every key of the map that was there is still there,
\* with the value written now if the call writes it and with its earlier
\* value if not, and every key written is there.
C8_MergeKeepsEarlierKeys ==
    LET old == Lookup(d_before, d_call.keys)
        new == Lookup(dictionary, d_call.keys)
    IN  (d_result # "none" /\ d_call.update_if_dicts
            /\ d_call.value.t = "dict" /\ old.t = "dict") =>
           /\ d_result = "returned"
           /\ new.t = "dict"
           /\ DOMAIN new.m = DOMAIN old.m \cup DOMAIN d_call.value.m
           /\ \A p \in DOMAIN old.m \ DOMAIN d_call.value.m : new.m[p] = old.m[p]
           /\ \A p \in DOMAIN d_call.value.m : new.m[p] = d_call.value.m[p]

\* A map with one key was written where a map with the other key stood,
\* and the node now has both.
C8_Witness ==
    LET old == Lookup(d_before, d_call.keys)
    IN  /\ d_result = "returned" /\ d_call.update_if_dicts
        /\ Len(d_call.keys) = 2
        /\ d_call.value.t = "dict" /\ old.t = "dict"
        /\ DOMAIN old.m # {} /\ DOMAIN d_call.value.m # {}
        /\ DOMAIN old.m \cap DOMAIN d_call.value.m = {}
        /\ DOMAIN Lookup(dictionary, d_call.keys).m = Keys

\* C9: a call with the default flags whose keys cross no str returns the
\* dictionary; every key but the last then leads to a map, one that was
\* missing to a map that holds the next key only; the last key holds the
\* value written whenever the value it held or the value written is no map.
\* Whatever the flags, what the dictionary holds outside the path of the
\* keys is as it was, and a call that raises leaves the dictionary as it was.
C9_WriteAndFrame ==
    LET keys  == d_call.keys
        old   == Lookup(d_before, keys)
        inner == 1..(Len(keys) - 1)
    IN  /\ (DefaultCall /\ \A n \in inner : Lookup(d_before, Prefix(keys, n)).t # "str") =>
              d_result = "returned"
        /\ (DefaultCall /\ d_result = "returned") =>
              /\ \A n \in inner :
                    /\ Lookup(dictionary, Prefix(keys, n)).t = "dict"
                    /\ Lookup(d_before, Prefix(keys, n)).t = "missing" =>
                          DOMAIN Lookup(dictionary, Prefix(keys, n)).m = { keys[n + 1] }
              /\ (old.t # "dict" \/ d_call.value.t # "dict") =>
                    Lookup(dictionary, keys) = d_call.value
        /\ d_result # "none" =>
              \A q \in ProbePaths :
                 (~ IsPrefix(q, keys) /\ ~ IsPrefix(keys, q)) =>
                    Lookup(dictionary, q) = Lookup(d_before, q)
        /\ d_result = "raised" => dictionary = d_before

\* A call with the default flags made a map for a missing first key, in a
\* dictionary that held other entries.
C9_Witness ==
    /\ DefaultCall /\ d_result = "returned"
    /\ Len(d_call.keys) = 2
    /\ Lookup(d_before, Prefix(d_call.keys, 1)).t = "missing"
    /\ DOMAIN d_before.m # {}
    /\ d_call.value.t = "str"

\* ---- properties of the definition decoder

\* The abbr children of the paragraph, in document order.
AbbrChildren == { i \in 1..Len(f_children) : f_children[i].name = "abbr" }

FirstAbbr == CHOOSE i \in AbbrChildren : \A k \in AbbrChildren : i <= k

\* C10 as the specification states it: a constructed Definition has a
\* category, the first abbr child, every later abbr child is among the
\* abbreviations, and a paragraph with no abbr child gives no Definition.
C10_AsClaimed ==
    f_pc = "done" =>
       /\ f_category # 0
       /\ AbbrChildren # {}
       /\ f_category = FirstAbbr
       /\ Range(f_abbreviations) = AbbrChildren \ { FirstAbbr }

\* C10, as the decoder behaves: a constructed Definition has at most one
\* category: the first abbr child when the paragraph has an abbr child, and
\* then every later abbr child is among the abbreviations, in document
\* order; a Definition constructed from a paragraph with no abbr child has
\* no category and no abbreviations.
C10_CategoryIsFirstAbbr ==
    f_pc = "done" =>
       IF AbbrChildren = {}
         THEN f_category = 0 /\ f_abbreviations = << >> /\ ~ f_first_of_category
         ELSE /\ f_category = FirstAbbr
              /\ f_first_of_category = (Lower(f_children[FirstAbbr].class) = "d")
              /\ Range(f_abbreviations) = AbbrChildren \ { FirstAbbr }
              /\ Increasing(f_abbreviations)

\* A Definition was constructed from a paragraph with no abbr child: its
\* category is None.
C10_NoCategory ==
    /\ f_pc = "done"
    /\ f_sentence
    /\ AbbrChildren = {}
    /\ f_category = 0

\* ---- properties of the classifiers

\* The definitions of the article that have no category.
WithoutCategory == { d \in 1..Len(c_definitions) : c_definitions[d].none }

\* The definitions of the article that have a category and are a verb.
VerbDefinitions ==
    { d \in 1..Len(c_definitions) :
         ~ c_definitions[d].none /\ Classify("is_verb", c_definitions[d]) }

\* C11: a classifier read on a Definition that has a category gives True or
\* False, the same for every Definition whose category has the same
\* abbreviated and expanded text; read on a Definition with no category it
\* raises and gives neither True nor False.
C11_ClassifiersNeedCategory ==
    c_eval.what \in Classifiers =>
       LET category == c_definitions[c_eval.d]
       IN  /\ category.none => c_result = "raise"
           /\ ~ category.none =>
                 /\ c_result \in { "True", "False" }
                 /\ \A other \in Categories :
                       (other.abbr = category.abbr /\ other.text = category.text
                          /\ ~ other.none) =>
                          Classifier(c_eval.what, other) = c_result
           /\ (c_eval.what = "is_adverb" /\ ~ category.none) =>
                 (c_result = "True" <=> category.abbr = << "a", "d", "v", "." >>)

\* A classifier was read on a definition with no category, in an article
\* that also has a definition with a category.
C11_Witness ==
    /\ c_eval.what \in Classifiers
    /\ c_definitions[c_eval.d].none
    /\ c_result = "raise"
    /\ \E d \in 1..Len(c_definitions) : ~ c_definitions[d].none

\* C17: Article.is_verb of an article whose definitions all have a category
\* is True exactly when a conjugation is attached or one of the definitions
\* is a verb.  In general it is True exactly when a conjugation is attached
\* or a verb definition comes before every definition with no category, and
\* it raises exactly when no conjugation is attached and a definition with
\* no category comes before every verb definition.
C17_IsVerbIffConjugationOrVerbDefinition ==
    c_eval.what = "Article.is_verb" =>
       /\ WithoutCategory = {} =>
             c_result = PyBool(c_conjugations \/ VerbDefinitions # {})
       /\ c_result = "True" <=>
             \/ c_conjugations
             \/ \E d \in VerbDefinitions : \A k \in WithoutCategory : d < k
       /\ c_result = "raise" <=>
             /\ ~ c_conjugations
             /\ \E k \in WithoutCategory : \A d \in VerbDefinitions : k < d

\* is_verb was read on an article with no conjugation whose two definitions
\* are a noun and an adjective, and gave False.
C17_Witness ==
    /\ c_eval.what = "Article.is_verb"
    /\ ~ c_conjugations
    /\ Len(c_definitions) = 2
    /\ Classifier("is_noun", c_definitions[1]) = "True"
    /\ Classifier("is_adjective", c_definitions[2]) = "True"
    /\ c_result = "False"

\* ---- properties of the lema decoders

\* C12 as the specification states it: "pre-" decodes with is_prefix true,
\* "-mente" with is_suffix true and "ONU" with is_acronym true.
C12_AsClaimed ==
    l_pc = "read" =>
       /\ l_text = << "p", "r", "e", "-" >> => l_flags.is_prefix
       /\ l_text = << "-", "m", "e", "n", "t", "e" >> => l_flags.is_suffix
       /\ l_text = << "O", "N", "U" >> => l_flags.is_acronym

\* The flags of the ArticleLema decoded from "pre-" were read: is_prefix is
\* False and is_suffix is True.
C12_PrefixReadAsSuffix ==
    /\ l_pc = "read"
    /\ l_text = << "p", "r", "e", "-" >>
    /\ l_lema = l_text
    /\ ~ l_flags.is_prefix
    /\ l_flags.is_suffix

\* ---- properties of to_dict

\* Both representations of the entity were built.
BothBuilt == t_compact.t = "dict" /\ t_extended.t = "dict"

\* Whether representation e holds all of representation c: a plain value is
\* the same value, a list has as many items, each holding the item of the
\* same place, and a dict has every key of c, each holding what it holds in c.
RECURSIVE Holds(_, _)
Holds(e, c) ==
    /\ e.t = c.t
    /\ CASE c.t = "dict" ->
              /\ DOMAIN c.m \subseteq DOMAIN e.m
              /\ \A k \in DOMAIN c.m : Holds(e.m[k], c.m[k])
         [] c.t = "list" ->
              /\ Len(e.l) = Len(c.l)
              /\ \A i \in 1..Len(c.l) : Holds(e.l[i], c.l[i])
         [] OTHER -> e.v = c.v

\* C13 as the specification states it: every key of to_dict(extended=False)
\* is a key of to_dict(extended=True) and holds the same value there.
C13_AsClaimed ==
    BothBuilt =>
       \A k \in DOMAIN t_compact.m :
          k \in DOMAIN t_extended.m /\ t_extended.m[k] = t_compact.m[k]

\* C13: when to_dict returns, every key of to_dict(extended=False) is a key
\* of to_dict(extended=True); a key that holds a plain value holds the same
\* value there, and a key that holds the representation of nested entities
\* holds their extended representation there, which holds all of their
\* compact one in the same way.  to_dict raises with one flag exactly when
\* it raises with the other.
C13_ExtendedHoldsCompact ==
    /\ BothBuilt => Holds(t_extended, t_compact)
    /\ (t_compact.t # "none" /\ t_extended.t # "none") =>
          (t_compact.t = "raise" <=> t_extended.t = "raise")

\* Both representations of a Definition were built, and its category, an
\* entity of its own, has keys in the extended one that the compact one
\* has not.
C13_Witness ==
    /\ BothBuilt
    /\ t_entity.type = "Definition"
    /\ DOMAIN t_compact.m["category"].m # DOMAIN t_extended.m["category"].m
    /\ Holds(t_extended, t_compact)

\* ---- properties of the Definition index and gloss

\* The index the index span is said to give: the leading run of digits when
\* a period comes right after it, whatever follows; 0 otherwise.
ClaimedIndex(text) ==
    LET p == RunEnd(text, 1, Digits)
    IN  IF p >= 1 /\ At(text, p + 1) = "." THEN Int(SubSeq(text, 1, p)) ELSE 0

\* C19 as stated: a constructed Definition whose paragraph holds one index
\* span has index N exactly when the text of the span begins with the digits
\* N and a period right after them, and index 0 in every other case.
C19_AsClaimed ==
    (f_pc = "done" /\ Len(f_index_texts) = 1)
        => f_index = ClaimedIndex(f_index_texts[1])

\* C19, where the code departs: the span reads "12", no period anywhere, and
\* the constructed Definition has index 1.
C19_DigitTakenForPeriod ==
    /\ f_pc = "done"
    /\ f_index_texts = << << "1", "2" >> >>
    /\ f_index = 1

\* The positions of the children of the paragraph that are neither the
\* category abbr (the first abbr child) nor an index span.
ClaimedGloss(tags) ==
    SelectSeq([ i \in 1..Len(tags) |-> i ],
              LAMBDA i : /\ ~ (tags[i].name = "abbr"
                                /\ \A j \in 1..(i - 1) : tags[j].name # "abbr")
                         /\ ~ (tags[i].name = "span" /\ Lower(tags[i].class) = "n_acep"))

\* C20 as stated: the gloss of a constructed Definition has a component for
\* every direct child of the paragraph but the category abbr and the index
\* span; later abbrs and other spans contribute.
C20_AsClaimed ==
    f_pc = "done" => f_gloss = ClaimedGloss(f_children)

\* C20: the gloss of a constructed Definition has a component for exactly the
\* direct children of the paragraph that are neither an abbr nor a span, in
\* the order of the paragraph: no abbr and no span contributes, whatever its
\* class and whether or not it is the category or the index.
C20_GlossLeavesOutEveryAbbrAndSpan ==
    f_pc = "done" =>
        /\ f_sentence
        /\ \A k \in 1..Len(f_gloss) : f_children[f_gloss[k]].name \notin { "abbr", "span" }
        /\ \A i \in 1..Len(f_children) :
             f_children[i].name \notin { "abbr", "span" }
                => \E k \in 1..Len(f_gloss) : f_gloss[k] = i
        /\ Increasing(f_gloss)

\* C20: a Definition is constructed from a category abbr, a text and a later
\* abbr; only the text gives a component of the gloss.
C20_Witness ==
    /\ f_pc = "done"
    /\ Len(f_children) = 3
    /\ f_children[1].name = "abbr"
    /\ f_children[2].name = ""
    /\ f_children[3].name = "abbr"
    /\ f_gloss = << 2 >>
    /\ Len(f_abbreviations) = 1

\* ---- properties of the logger

\* C18: starting from a 'pyrae' logger with no handlers, once a call of
\* init_logger or set_log_level has returned the logger has exactly one
\* handler, however many calls follow, and logger.current refers to the
\* 'pyrae' logger; a call with a string that names no level raises before it
\* touches the logger.
C18_OneHandlerAndCurrentSet ==
    /\ (g_initial = 0 /\ g_returned >= 1) =>
          /\ g_handlers = 1
          /\ g_current = "pyrae"
          /\ g_propagate = FALSE
    /\ (g_initial = 0 /\ g_returned = 0) =>
          /\ g_handlers = 0
          /\ g_current = "None"

\* C18: three calls have returned on a logger that began with no handlers,
\* the last one made through set_log_level.
C18_Witness ==
    /\ g_initial = 0
    /\ g_returned = 3
    /\ g_call.fn = "set_log_level"
    /\ g_handlers = 1
    /\ g_level = 40

\* ---- properties of the constructor, from_html and the html setter

\* C14 as stated: whatever is done with a constructed entity, its fields are
\* those its constructor left.
C14_AsClaimed ==
    Constructed => e_obj = e_built

\* C14, where the code departs: a Sentence is assigned the html it already
\* has, and it holds every component twice.
C14_ComponentsTwice ==
    /\ e_cls = "Sentence"
    /\ Constructed
    /\ e_sets = 1
    /\ e_obj.html = e_built.html
    /\ Len(e_built.components) >= 1
    /\ e_obj.components = e_built.components \o e_built.components

\* C15: from_html never raises; it gives the object the constructor gives
\* on the same html (called as from_html calls it, with html alone) where the
\* constructor returns, and None where the constructor raises, which it does
\* on empty html.
C15_FromHtmlGivesEntityOrNone ==
    e_from # Unbuilt =>
        /\ e_from.type \in EntityClasses \cup { "None" }
        /\ e_html = << >> => e_from.type = "None"
        /\ (e_built # Unbuilt /\ e_args = DefaultArgs) =>
             /\ e_built.type \in EntityClasses => e_from = e_built
             /\ e_built.type = "raise" => e_from.type = "None"

\* C15: the constructor of Word raised on html that is not empty, and
\* from_html gave None for the same html.
C15_Witness ==
    /\ e_cls = "Word"
    /\ e_html # << >>
    /\ e_built.type = "raise"
    /\ e_from.type = "None"

\* C16 as stated: a constructed Abbr has an expansion that is not empty, an
\* abbr without title gives no Abbr, and str of an Abbr is its abbreviated
\* text, a space and the expansion in parentheses.
C16_AsClaimed ==
    /\ e_built.type = "Abbr" => e_built.text # << >>
    /\ (e_cls = "Abbr" /\ e_built # Unbuilt
        /\ "title" \notin SoupTag(e_html, "abbr").attrs) => e_built.type = "raise"
    /\ (e_cls = "Abbr" /\ e_result.t = "str")
          => e_result.v = e_obj.abbr \o << " ", "(" >> \o e_obj.text \o << ")" >>

\* C16, where the code departs: the abbr has a title attribute that is
\* empty, and the Abbr is constructed with an empty expansion.
C16_EmptyExpansion ==
    /\ e_built.type = "Abbr"
    /\ "title" \in SoupTag(e_html, "abbr").attrs
    /\ e_built.text = << >>
    /\ e_built.abbr = << "a", "." >>

\* ---- properties of the Sentence composer and the Word decoder

\* The children of the root element that the Sentence does not ignore.
KeptChildren ==
    IF e_html = << >> THEN << >>
    ELSE SelectSeq(e_html[1].kids, LAMBDA t : t.name \notin e_args.ignore_tags)

AbbrDecodes(tag) == ~ AbbrParse(NewAbbr(<< tag >>), e_blank_class).raised

WordDecodes(tag) == ~ WordParse(NewWord(<< tag >>), << >>, e_blank_class).raised

\* C21: a constructed Sentence has one component for each child of the root
\* element whose name is not ignored, in the order of the document: an Abbr
\* where Abbr decodes the child, else a Word where Word decodes it, else the
\* text of the child; and str of the Sentence, each time it is asked, is the
\* renderings of the components joined and stripped.
C21_OneComponentPerChild ==
    (e_cls = "Sentence" /\ e_built.type = "Sentence") =>
        /\ Len(e_built.components) = Len(KeptChildren)
        /\ \A k \in 1..Len(KeptChildren) :
             LET tag == KeptChildren[k]
                 component == e_built.components[k]
             IN  IF AbbrDecodes(tag)
                   THEN component.type = "Abbr" /\ component.html = << tag >>
                 ELSE IF WordDecodes(tag)
                   THEN component.type = "Word" /\ component.html = << tag >>
                 ELSE component = TextE(NodeText(tag))
        /\ (e_sets = 0 /\ e_result.t = "str") =>
             e_result.v = Strip(Join(e_built.components))

\* C21: a Sentence of two children has been rendered; its first child is an
\* abbr that holds a mark, which both Abbr and Word decode, and it gave an Abbr.
C21_Witness ==
    /\ e_cls = "Sentence"
    /\ e_built.type = "Sentence"
    /\ Len(KeptChildren) = 2
    /\ AbbrDecodes(KeptChildren[1]) /\ WordDecodes(KeptChildren[1])
    /\ e_built.components[1].type = "Abbr"
    /\ e_built.components[2].type = "str"
    /\ e_sets = 0
    /\ e_result.t = "str"

HasTag(tag) == tag.name # NoTag.name

\* Whether a span has u as its first class, whatever the case.
Underlined(span) ==
    /\ "class" \in span.attrs
    /\ ClassList(span, e_blank_class) # << >>
    /\ LowerText(ClassList(span, e_blank_class)[1]) = << "u" >>

\* C22: Word looks for a mark, then an anchor, then a span, and the first of
\* them that the html holds decides: a mark gives a word that is no active
\* link, with the link /?id= and the data-id of the mark, whether or not
\* there is an anchor; an anchor, where there is no mark, gives an active
\* link; a span of class u, where there is neither, gives a word with no
\* link; nothing else gives a Word, and no Word but that of an anchor is an
\* active link.
C22_MarkThenAnchorThenSpan ==
    (e_cls = "Word" /\ e_built # Unbuilt) =>
        LET mark == SoupTag(e_html, "mark")
            a == SoupTag(e_html, "a")
            span == SoupTag(e_html, "span")
            built == e_built.type = "Word"
        IN  /\ HasTag(mark) =>
                 IF "data-id" \in mark.attrs
                   THEN /\ built
                        /\ ~ e_built.is_active_link
                        /\ e_built.href = << "/", "?", "i", "d", "=" >> \o mark.data_id
                        /\ e_built.text = NodeText(mark)
                   ELSE ~ built
            /\ (~ HasTag(mark) /\ HasTag(a)) =>
                 IF "href" \in a.attrs
                   THEN /\ built
                        /\ e_built.is_active_link
                        /\ e_built.text = Strip(NodeText(a))
                   ELSE ~ built
            /\ (~ HasTag(mark) /\ ~ HasTag(a) /\ HasTag(span)) =>
                 IF Underlined(span)
                   THEN /\ built
                        /\ ~ e_built.is_active_link
                        /\ e_built.href = << >>
                        /\ e_built.text = NodeText(span)
                   ELSE ~ built
            /\ (~ HasTag(mark) /\ ~ HasTag(a) /\ ~ HasTag(span)) => ~ built
            /\ (built /\ e_built.is_active_link) => (~ HasTag(mark) /\ HasTag(a))

\* C22: the html holds an anchor and, after it, a mark; the Word is built
\* from the mark and is no active link.
C22_Witness ==
    /\ e_cls = "Word"
    /\ Len(e_html) = 2
    /\ e_html[1].name = "a"
    /\ e_html[2].name = "mark"
    /\ e_built.type = "Word"
    /\ ~ e_built.is_active_link
    /\ e_built.href = << "/", "?", "i", "d", "=", "X" >>

\* C23: the href of a constructed Word is empty or begins with '/'; that of
\* an anchor is the href of the anchor where it is empty or begins with '/',
\* and '/' followed by the parent href and the href of the anchor otherwise.
C23_HrefEmptyOrRooted ==
    (e_cls = "Word" /\ e_built.type = "Word") =>
        /\ e_built.href = << >> \/ e_built.href[1] = "/"
        /\ e_built.is_active_link =>
             LET href == SoupTag(e_html, "a").href
             IN  IF href = << >> \/ At(href, 1) = "/"
                   THEN e_built.href = href
                   ELSE e_built.href = << "/" >> \o e_args.parent_href \o href

\* C23: a Word is built from an anchor with href s and the parent href Id,
\* and its href is /Ids.
C23_Witness ==
    /\ e_cls = "Word"
    /\ e_built.type = "Word"
    /\ e_built.is_active_link
    /\ e_args.parent_href = << "I", "d" >>
    /\ SoupTag(e_html, "a").href = << "s" >>
    /\ e_built.href = << "/", "I", "d", "s" >>

\* ---- properties of the related entries

\* C25 as stated: every key of related_entries is a label the group
\* `related` of the pattern captured, and under each key the blocks are in
\* the order of the document.
C25_AsClaimed ==
    /\ DOMAIN related_entries \subseteq { "r1", "r2" }
    /\ \A k \in DOMAIN related_entries : Increasing(related_entries[k])

\* C25, where the code departs: a block with a link whose text is a plain
\* headword, which the pattern matches with its group `related` left out,
\* has its Word in related_entries under the key None.
C25_KeyedByNone ==
    /\ s_pc = "done"
    /\ "None" \in DOMAIN related_entries
    /\ Len(related_entries["None"]) >= 1
    /\ LemaMatch(<< "c", "a", "s", "a" >>).matched
    /\ LemaMatch(<< "c", "a", "s", "a" >>).related = << >>


\* ---- properties of the conjugation table

\* The rows an object has been through without raising.
RowsScanned(i) ==
    IF q_self[i].pc \in { "scan", "done" } THEN 1..(q_self[i].row - 1) ELSE {}

CellIndexes(i, r) == 0..(Len(q_tables[i].rows[r]) - 1)

CellAt(i, r, cell_index) == q_tables[i].rows[r][cell_index + 1]

\* C24, as the specification states it: only the first two cells of a row
\* are ignored, so every header cell from the third column onward (index 2
\* onward) is interpreted as a mood or tense header.
C24_AsClaimed ==
    \A i \in DOMAIN q_self : \A r \in RowsScanned(i) : \A c \in CellIndexes(i, r) :
        (c >= 2 /\ CellAt(i, r, c).name = "th") => << r, c >> \in q_self[i].headers

\* C24, amended: the first three cells of every row are skipped, so no
\* header is interpreted and no data is written from them, the third cell
\* being read only for the person label; every header cell from the fourth
\* column onward is interpreted as a mood or tense header, and every data
\* cell from the fourth column onward is written into the table under the
\* person label taken from the row's third cell.
C24_FirstThreeCellsSkipped ==
    \A i \in DOMAIN q_self : \A r \in RowsScanned(i) : \A c \in CellIndexes(i, r) :
        LET persona == JoinWords(CellAt(i, r, 2).words)
        IN  /\ c < 3 => /\ << r, c >> \notin q_self[i].headers
                        /\ \A w \in q_self[i].written : ~ (w[1] = r /\ w[2] = c)
            /\ (c >= 3 /\ CellAt(i, r, c).name = "th") => << r, c >> \in q_self[i].headers
            /\ (c >= 3 /\ CellAt(i, r, c).name = "td") =>
                   /\ << r, c, persona >> \in q_self[i].written
                   /\ \A w \in q_self[i].written : (w[1] = r /\ w[2] = c) => w[3] = persona

\* An object went through a mood row, a row of tenses whose third cell is a
\* header with a text, and a row of data: the third header was passed over,
\* the later ones were interpreted and the data is in the table under the
\* person of the third cell.
C24_Witness ==
    /\ q_self # << >>
    /\ q_self[1].pc = "done"
    /\ q_tables[1].rows = << MoodRow, TenseRow, DataRow >>
    /\ << 2, 2 >> \notin q_self[1].headers
    /\ << 2, 3 >> \in q_self[1].headers
    /\ << 3, 4, "yo" >> \in q_self[1].written
    /\ q_heap[q_self[1].ref].m["Indicativo"].m["Futuro"] =
           Dict([ k \in { "yo" } |-> Str("[amare, amase]") ])

\* The dictionaries the classes are written with.
ClassDictionariesKept ==
    /\ q_heap["Conjugation.CONJUGATION_BASE_DICT"] = CONJUGATION_BASE_DICT
    /\ q_heap["EntryLema.PROCESSING_TAGS"] = EntryLemaTags
    /\ q_heap["Entry.PROCESSING_TAGS"] = EntryTags
    /\ q_heap["ArticleLema.PROCESSING_TAGS"] =
           Dict([ k \in { "lema" } |-> TagAndClass("header", "f") ])
    /\ q_heap["Article.PROCESSING_TAGS"] =
           Dict([ k \in { "supplementary_info", "definition", "other" } |->
                    CASE k = "definition" -> TagAndClass("p", "j")
                      [] k = "other" -> TagAndClass("p", "l")
                      [] OTHER -> TagAndClass("p", "n") ])

\* C26: decoding shares no mutable state.  Whatever the two objects have
\* done and in whatever order their rows were taken, CONJUGATION_BASE_DICT
\* and the PROCESSING_TAGS of the entry classes are as the classes were
\* written, those of the article classes are their own, and an object that
\* is through holds what its table gives by itself; it raised exactly when
\* its table by itself raises.
C26_NoSharedMutableState ==
    q_self # << >> =>
        /\ ClassDictionariesKept
        /\ \A i \in DOMAIN q_self :
               /\ q_self[i].pc = "done" =>
                      /\ ~ Alone(q_tables[i]).raised
                      /\ q_heap[q_self[i].ref] = Alone(q_tables[i]).conj
               /\ q_self[i].pc = "failed" => Alone(q_tables[i]).raised

\* Both objects are through, their rows were taken in turn, each wrote into
\* its table, and the two tables differ from each other and from the one the
\* class holds.
C26_Witness ==
    /\ q_self # << >>
    /\ \A i \in DOMAIN q_self : q_self[i].pc = "done" /\ q_self[i].written # {}
    /\ q_tables[1].rows = << MoodRow, DataRow >>
    /\ q_heap[q_self[1].ref] # q_heap[q_self[2].ref]
    /\ q_heap[q_self[1].ref] # CONJUGATION_BASE_DICT
    /\ q_heap[q_self[2].ref] # CONJUGATION_BASE_DICT
    /\ q_self[1].ref # q_self[2].ref

====
